---- MODULE Spec2Model ----
(***************************************************************************)
(* A model of the NEAR intents example: the package                        *)
(* src/src/near_intents/near_intents.py, the older top-level module        *)
(* src/intents.py and the agent of src/intents/ai_agent.py.                *)
(*                                                                         *)
(* Python values are modelled by what the interpreter does with them:      *)
(*   - a str of digits is a sequence of character codes, a digit d being   *)
(*     the number d and the minus sign the number -1 (so that the order of *)
(*     the codes is the order of the code points '-' < '0' < ... < '9');   *)
(*   - an int is a sign and a sequence of limbs in base 10^4 (unbounded);  *)
(*   - a float is a sign and a dyadic rational n / 2^k whose numerator     *)
(*     has at most 53 significant bits (IEEE binary64, round to nearest,   *)
(*     ties to even; the exponent range is never left by the amounts of    *)
(*     the model).                                                         *)
(***************************************************************************)
EXTENDS Integers, Sequences, FiniteSets, TLC

(***************************************************************************)
(* Evaluation.  An operator that reads a parameter more than once binds it *)
(* first, as the one element of a set: { e(t) : t \in {x} } evaluates x    *)
(* once and e on its value, and CHOOSE takes the one element out again.    *)
(* This is how a Python local variable holds a value that was computed     *)
(* once; it changes nothing in what is computed.                           *)
(***************************************************************************)

(***************************************************************************)
(* Unbounded naturals: big-endian sequences of limbs in base 10^4, without *)
(* leading zero limbs (zero is <<0>>).                                     *)
(***************************************************************************)
Base == 10 ^ 4

Norm(x) ==
    CHOOSE r \in
      { IF \A i \in 1..Len(l) : l[i] = 0 THEN <<0>>
        ELSE SubSeq(l, CHOOSE i \in 1..Len(l) :
                          l[i] # 0 /\ \A j \in 1..(i - 1) : l[j] = 0, Len(l))
        : l \in {x} } : TRUE

IsZero(x) == CHOOSE r \in { \A i \in 1..Len(l) : l[i] = 0 : l \in {x} } : TRUE

\* the limb of l at position i (0 is the least significant)
LimbAt(l, i) == IF i < Len(l) THEN l[Len(l) - i] ELSE 0

\* the limbs of a + b from position i on, a and b being values
RECURSIVE AddFrom(_, _, _, _)
AddFrom(a, b, i, carry) ==
    CHOOSE r \in
      { IF i >= Len(a) /\ i >= Len(b) /\ s = 0 THEN <<>>
        ELSE Append(AddFrom(a, b, i + 1, s \div Base), s % Base)
        : s \in {LimbAt(a, i) + LimbAt(b, i) + carry} } : TRUE

Add(x, y) == CHOOSE r \in { Norm(AddFrom(a, b, 0, 0)) : a \in {x}, b \in {y} } : TRUE

\* the limbs of a * m from position i on, for a limb m
RECURSIVE MulSmallFrom(_, _, _, _)
MulSmallFrom(a, m, i, carry) ==
    CHOOSE r \in
      { IF i >= Len(a) /\ s = 0 THEN <<>>
        ELSE Append(MulSmallFrom(a, m, i + 1, s \div Base), s % Base)
        : s \in {LimbAt(a, i) * m + carry} } : TRUE

MulSmall(x, y) ==
    CHOOSE r \in { Norm(MulSmallFrom(a, m, 0, 0)) : a \in {x}, m \in {y} } : TRUE

\* long multiplication, from the most significant limb of b
RECURSIVE MulFrom(_, _, _, _)
MulFrom(a, b, j, x) ==
    CHOOSE r \in
      { IF j > Len(b) THEN acc
        ELSE MulFrom(a, b, j + 1, Add(Norm(Append(acc, 0)), MulSmall(a, b[j])))
        : acc \in {x} } : TRUE

Mul(x, y) == CHOOSE r \in { MulFrom(a, b, 1, <<0>>) : a \in {x}, b \in {y} } : TRUE

IsOdd(x) == CHOOSE r \in { l[Len(l)] % 2 = 1 : l \in {x} } : TRUE

\* floor(l / 2): the carry into a limb is the parity of the limb before it
Halve(x) ==
    CHOOSE r \in
      { Norm([i \in 1..Len(l) |->
                ((IF i > 1 THEN l[i - 1] % 2 ELSE 0) * Base + l[i]) \div 2])
        : l \in {x} } : TRUE

\* 2 * l: the carry into a limb is whether the limb after it is at least Base/2
Double(x) ==
    CHOOSE r \in
      { (IF 2 * l[1] >= Base THEN <<1>> ELSE <<>>) \o
        [i \in 1..Len(l) |->
           (2 * l[i] + (IF i < Len(l) /\ 2 * l[i + 1] >= Base THEN 1 ELSE 0)) % Base]
        : l \in {x} } : TRUE

Double8(l) == Double(Double(Double(Double(Double(Double(Double(Double(l))))))))

Halve8(l) == Halve(Halve(Halve(Halve(Halve(Halve(Halve(Halve(l))))))))

\* l * 2^m, eight doublings at a time while eight are left
RECURSIVE TimesPow2(_, _)
TimesPow2(x, y) ==
    CHOOSE r \in
      { IF m = 0 THEN l
        ELSE IF m >= 8 THEN TimesPow2(Double8(l), m - 8)
        ELSE TimesPow2(Double(l), m - 1)
        : l \in {x}, m \in {y} } : TRUE

\* floor(l / 2^m), eight halvings at a time while eight are left
RECURSIVE FloorDivPow2(_, _)
FloorDivPow2(x, y) ==
    CHOOSE r \in
      { IF m = 0 THEN l
        ELSE IF m >= 8 THEN FloorDivPow2(Halve8(l), m - 8)
        ELSE FloorDivPow2(Halve(l), m - 1)
        : l \in {x}, m \in {y} } : TRUE

\* a < b position by position, for two values; a proper prefix is the smaller
RECURSIVE SeqLess(_, _, _)
SeqLess(a, b, i) ==
    IF i > Len(a) THEN i <= Len(b)
    ELSE IF i > Len(b) THEN FALSE
    ELSE IF a[i] # b[i] THEN a[i] < b[i]
    ELSE SeqLess(a, b, i + 1)

\* a < b for two normalised naturals
NatLess(x, y) ==
    CHOOSE r \in
      { Len(a) < Len(b) \/ (Len(a) = Len(b) /\ SeqLess(a, b, 1))
        : a \in {x}, b \in {y} } : TRUE

\* 10^d
Pow10(d) == <<10 ^ (d % 4)>> \o [i \in 1..(d \div 4) |-> 0]

(***************************************************************************)
(* Python str of digits: a sequence of character codes, the digit d being  *)
(* d and '-' being -1.  Comparison of two strings is by code point,        *)
(* position by position, a proper prefix being the smaller.                *)
(***************************************************************************)
StrLess(x, y) == CHOOSE r \in { SeqLess(a, b, 1) : a \in {x}, b \in {y} } : TRUE

MinusSign == <<0 - 1>>

\* the natural a string of decimal digits denotes (p is s padded with zeros
\* on the left to a multiple of four digits)
DigitsToNat(s) ==
    CHOOSE r \in
      { Norm([j \in 1..(Len(p) \div 4) |->
                1000 * p[4 * j - 3] + 100 * p[4 * j - 2] + 10 * p[4 * j - 1] + p[4 * j]])
        : p \in {[i \in 1..((4 - (Len(s) % 4)) % 4) |-> 0] \o s} } : TRUE

\* the decimal digits of a natural, without leading zeros
NatToDigits(x) ==
    CHOOSE r \in
      { Norm([i \in 1..(4 * Len(l)) |->
                (l[(i + 3) \div 4] \div (10 ^ (3 - ((i - 1) % 4)))) % 10])
        : l \in {x} } : TRUE

(***************************************************************************)
(* Python int and float: [isfloat, neg, n, k] is (-1)^neg * n / 2^k, with  *)
(* k = 0 for an int.                                                       *)
(***************************************************************************)
PyInt(neg, x) ==
    CHOOSE r \in
      { [isfloat |-> FALSE, neg |-> neg /\ ~IsZero(n), n |-> n, k |-> 0]
        : n \in {Norm(x)} } : TRUE

\* 2^53 = 9007199254740992: a float holds every integer below it exactly
Two53 == <<9007, 1992, 5474, 992>>

\* one halving of n on the way to at most 53 bits, keeping the last bit
\* shifted out (guard) and whether a bit shifted out before it was set (sticky)
ShiftStep(x) ==
    CHOOSE r \in
      { IF NatLess(st.n, Two53) THEN st
        ELSE [n |-> Halve(st.n), e |-> st.e + 1,
              guard |-> st.n[Len(st.n)] % 2,
              sticky |-> st.sticky \/ st.guard = 1]
        : st \in {x} } : TRUE

ShiftStep8(st) ==
    ShiftStep(ShiftStep(ShiftStep(ShiftStep(ShiftStep(ShiftStep(ShiftStep(ShiftStep(st))))))))

\* halve n until it has at most 53 bits
RECURSIVE ShiftTo53(_)
ShiftTo53(x) ==
    CHOOSE r \in
      { IF NatLess(st.n, Two53) THEN st ELSE ShiftTo53(ShiftStep8(st))
        : st \in {x} } : TRUE

\* the float (-1)^neg * q * 2^e / 2^k
MakeFloat(neg, x, e, k) ==
    CHOOSE r \in
      { IF e >= k
        THEN [isfloat |-> TRUE, neg |-> neg, n |-> TimesPow2(q, e - k), k |-> 0]
        ELSE [isfloat |-> TRUE, neg |-> neg, n |-> q, k |-> k - e]
        : q \in {x} } : TRUE

\* the float nearest to (-1)^neg * n / 2^k, ties to even
RoundFloat(neg, n, k) ==
    CHOOSE r \in
      { MakeFloat(neg,
                  IF st.guard = 1 /\ (st.sticky \/ IsOdd(st.n))
                  THEN Add(st.n, <<1>>) ELSE st.n,
                  st.e, k)
        : st \in {ShiftTo53([n |-> Norm(n), e |-> 0, guard |-> 0, sticky |-> FALSE])} }
      : TRUE

\* float(x) of an int or a float
ToFloat(x) ==
    CHOOSE r \in
      { IF v.isfloat THEN v ELSE RoundFloat(v.neg, v.n, 0) : v \in {x} } : TRUE

\* float(s) of a str of decimal digits with an optional sign
ParseFloat(x) ==
    CHOOSE r \in
      { IF Len(s) > 0 /\ s[1] < 0 THEN RoundFloat(TRUE, DigitsToNat(Tail(s)), 0)
        ELSE RoundFloat(FALSE, DigitsToNat(s), 0)
        : s \in {x} } : TRUE

\* x * y: of two ints exactly, of a float and a number in binary64
PyMul(x, y) ==
    CHOOSE r \in
      { IF ~v.isfloat /\ ~w.isfloat THEN PyInt(v.neg # w.neg, Mul(v.n, w.n))
        ELSE CHOOSE p \in
               { RoundFloat(a.neg # b.neg, Mul(a.n, b.n), a.k + b.k)
                 : a \in {ToFloat(v)}, b \in {ToFloat(w)} } : TRUE
        : v \in {x}, w \in {y} } : TRUE

\* int(x): truncation toward zero
ToInt(x) ==
    CHOOSE r \in { PyInt(v.neg, FloorDivPow2(v.n, v.k)) : v \in {x} } : TRUE

\* str(i) of an int
Str(x) ==
    CHOOSE r \in
      { IF i.neg THEN MinusSign \o NatToDigits(i.n) ELSE NatToDigits(i.n)
        : i \in {x} } : TRUE

\* int(s) of a str of decimal digits with an optional sign
ParseInt(x) ==
    CHOOSE r \in
      { IF Len(s) > 0 /\ s[1] < 0 THEN PyInt(TRUE, DigitsToNat(Tail(s)))
        ELSE PyInt(FALSE, DigitsToNat(s))
        : s \in {x} } : TRUE

\* x >= y for two floats
FloatGreaterEq(x, y) ==
    CHOOSE r \in
      { CHOOSE g \in
          { IF IsZero(an) /\ IsZero(bn) THEN TRUE
            ELSE IF (a.neg /\ ~IsZero(an)) # (b.neg /\ ~IsZero(bn))
                 THEN b.neg /\ ~IsZero(bn)
            ELSE IF a.neg /\ ~IsZero(an) THEN ~NatLess(bn, an)
            ELSE ~NatLess(an, bn)
            : an \in {Norm(TimesPow2(a.n, b.k))}, bn \in {Norm(TimesPow2(b.n, a.k))} }
          : TRUE
        : a \in {x}, b \in {y} } : TRUE

\* x > y for two floats
FloatGreater(x, y) ==
    CHOOSE r \in
      { CHOOSE g \in
          { IF IsZero(an) /\ IsZero(bn) THEN FALSE
            ELSE IF (a.neg /\ ~IsZero(an)) # (b.neg /\ ~IsZero(bn))
                 THEN b.neg /\ ~IsZero(bn)
            ELSE IF a.neg /\ ~IsZero(an) THEN NatLess(an, bn)
            ELSE NatLess(bn, an)
            : an \in {Norm(TimesPow2(a.n, b.k))}, bn \in {Norm(TimesPow2(b.n, a.k))} }
          : TRUE
        : a \in {x}, b \in {y} } : TRUE

\* x < 0 for a number
Negative(x) == CHOOSE r \in { v.neg /\ ~IsZero(v.n) : v \in {x} } : TRUE

\* x <= 0 for a number
NotPositive(x) == CHOOSE r \in { v.neg \/ IsZero(v.n) : v \in {x} } : TRUE

\* a balance test that lets every amount pass
NeverInsufficient(balance_near, amount) == FALSE

\* balance_near < amount, of AIAgent.deposit_near and swap_near_to_token
Insufficient(balance_near, amount) == FloatGreater(ToFloat(amount), balance_near)

(***************************************************************************)
(* The asset tables and the pure functions of the two modules.  The names  *)
(* of src/src/near_intents/near_intents.py are kept; those of the older    *)
(* top-level src/intents.py carry the prefix intents_.                     *)
(***************************************************************************)
ASSET_MAP ==
    ("USDC" :> [token_id |-> "a0b86991c6218b36c1d19d4a2e9eb0ce3606eb48.factory.bridge.near",
                omft     |-> "eth-0xa0b86991c6218b36c1d19d4a2e9eb0ce3606eb48.omft.near",
                decimals |-> 6]) @@
    ("NEAR" :> [token_id |-> "wrap.near", decimals |-> 24])

intents_ASSET_MAP ==
    ("USDC" :> [token_id |-> "17208628f84f5d6ad33f0da3bbbeb27ffcb398eac501a31bd6ad2011e36133a1",
                decimals |-> 6]) @@
    ("NEAR" :> [token_id |-> "wrap.near", decimals |-> 24])

\* '%s' formatting and + of two strings that are not digit strings: the pair
\* of the parts, which determines the text
Concat(a, b) == <<a, b>>

\* near_intents.get_asset_id, for a token of ASSET_MAP (any other raises KeyError)
get_asset_id(token) ==
    IF token = "NEAR" THEN <<"near">>
    ELSE IF token = "USDC"
    THEN Concat("nep141:", "a0b86991c6218b36c1d19d4a2e9eb0ce3606eb48.factory.bridge.near")
    ELSE Concat("nep141:", ASSET_MAP[token].token_id)

\* intents.get_asset_id, for a token of intents_ASSET_MAP
intents_get_asset_id(token) == Concat("nep141:", intents_ASSET_MAP[token].token_id)

\* to_decimals of both modules: str(int(amount * 10 ** decimals))
to_decimals(amount, decimals) == Str(ToInt(PyMul(amount, PyInt(FALSE, Pow10(decimals)))))

(***************************************************************************)
(* A relay option is a dict; has_amount and has_hash say which of the keys *)
(* amount_out and quote_hash it holds (an absent amount_out is <<>>, an    *)
(* absent quote_hash is 0), and a dict without keys is falsy.              *)
(***************************************************************************)
Truthy(option) == option.has_amount \/ option.has_hash

\* float(option.get("amount_out", 0))
AmountOrZero(option) ==
    IF option.has_amount THEN ParseFloat(option.amount_out) ELSE ParseFloat(<<0>>)

\* the loop of near_intents.select_best_option from option i on; best is the
\* index of best_option, 0 for None
RECURSIVE select_best_from(_, _, _)
select_best_from(options, i, b) ==
    CHOOSE r \in
      { IF i > Len(options) THEN best
        ELSE select_best_from(options, i + 1,
               IF best = 0 \/ ~Truthy(options[best])
                  \/ FloatGreater(AmountOrZero(options[i]), AmountOrZero(options[best]))
               THEN i ELSE best)
        : best \in {b} } : TRUE

\* near_intents.select_best_option: the index of the option returned, 0 for None
select_best_option(options) ==
    IF Len(options) = 0 THEN 0 ELSE select_best_from(options, 1, 0)

\* the loop of intents.select_best_option; option["amount_out"] raises
\* KeyError when the key is absent
RECURSIVE intents_select_best_from(_, _, _)
intents_select_best_from(options, i, b) ==
    CHOOSE r \in
      { IF i > Len(options) \/ st.error # "" THEN st
        ELSE intents_select_best_from(options, i + 1,
               IF st.best = 0 \/ ~Truthy(options[st.best]) THEN [best |-> i, error |-> ""]
               ELSE IF ~options[i].has_amount \/ ~options[st.best].has_amount
               THEN [best |-> st.best, error |-> "KeyError"]
               ELSE IF StrLess(options[i].amount_out, options[st.best].amount_out)
               THEN [best |-> i, error |-> ""]
               ELSE st)
        : st \in {b} } : TRUE

\* intents.select_best_option: [best, error], best the index of the option
\* returned (0 for None) when error is ""
intents_select_best_option(options) ==
    intents_select_best_from(options, 1, [best |-> 0, error |-> ""])

(***************************************************************************)
(* Bounds and input domains.                                               *)
(***************************************************************************)
\* the longest option list the relay answers a swap's quote request with
MaxReply == 2

\* the longest option list select_best_option is applied to on its own
MaxOptions == 3

\* the token symbols a caller passes; "BTC" is in neither asset table
Tokens == {"NEAR", "USDC", "BTC"}

Float(neg, n, k) == [isfloat |-> TRUE, neg |-> neg, n |-> n, k |-> k]

\* the amounts a caller passes: 1.0, 0.5, the int 1, 0.0 and -1.0
AmountsIn ==
    { Float(FALSE, <<1>>, 0), Float(FALSE, <<1>>, 1), PyInt(FALSE, <<1>>),
      Float(FALSE, <<0>>, 0), Float(TRUE, <<1>>, 0) }

\* the account of the caller (account.account_id) and its key
AccountId == "user.near"

PublicKey == Concat("ed25519:", "base58(public_key)")

Destinations == {"bob.near", "0xdead"}

Networks == {"near", "eth"}

\* values of the 32 random bytes of a nonce
Nonces == {"nonce-a", "nonce-b"}

\* time.time() * 1000 at the operation, in digits: 2025-11-01 and 2026-11-02,
\* before and after the date the fixed deadline string names
Times == { <<1, 7, 6, 1, 9, 5, 5, 2, 0, 0, 0, 0, 0>>, <<1, 7, 9, 3, 5, 7, 7, 6, 0, 0, 0, 0, 0>> }

\* the kinds of option in a reply to a swap: amount_out "100" or "250" with a
\* quote_hash, a dict without amount_out, a dict without quote_hash
ReplyKinds ==
    { [amount_out |-> <<1, 0, 0>>, has_amount |-> TRUE, has_hash |-> TRUE],
      [amount_out |-> <<2, 5, 0>>, has_amount |-> TRUE, has_hash |-> TRUE],
      [amount_out |-> <<>>, has_amount |-> FALSE, has_hash |-> TRUE],
      [amount_out |-> <<2, 5, 0>>, has_amount |-> TRUE, has_hash |-> FALSE] }

\* the options of a reply: the relay issues one quote hash per option, here
\* the number of the option
MkOptions(ks) ==
    [i \in 1..Len(ks) |->
        [amount_out |-> ks[i].amount_out, has_amount |-> ks[i].has_amount,
         has_hash |-> ks[i].has_hash, quote_hash |-> IF ks[i].has_hash THEN i ELSE 0]]

OptionLists(kinds, maxlen) ==
    UNION { { MkOptions(ks) : ks \in [1..n -> kinds] } : n \in 0..maxlen }

\* what the relay does with a quote request: a result (possibly empty), a
\* structured error without result, or no answer (requests.post raises)
QuoteReplies ==
    { [kind |-> "result", options |-> os] : os \in OptionLists(ReplyKinds, MaxReply) }
    \cup { [kind |-> "error", options |-> <<>>], [kind |-> "unreachable", options |-> <<>>] }

\* the message of the relay's structured error
RelayMessage == "relay error: quote rejected"

\* response.json() for a reply of the relay
ResponseOf(reply) ==
    [kind |-> reply.kind, message |-> IF reply.kind = "error" THEN RelayMessage ELSE ""]

\* what the relay does with a publish_intent request
PublishReplies == {"ok", "unreachable"}

\* what the ledger does with a storage_deposit call
LedgerOutcomes == {"ok", "already registered", "failed"}

\* what the ledger does with any other call
CallOutcomes == {"ok", "failed"}

\* what account.state() returns: nothing, or an account whose amount makes
\* float(amount) / 10**24 the float 0.0, the float 0.1 or the float 2.0
AccountStates ==
    { [found |-> FALSE, balance_near |-> Float(FALSE, <<0>>, 0)],
      [found |-> TRUE, balance_near |-> Float(FALSE, <<0>>, 0)],
      [found |-> TRUE, balance_near |-> Float(FALSE, <<3602, 8797, 189, 6397>>, 55)],
      [found |-> TRUE, balance_near |-> Float(FALSE, <<2>>, 0)] }

\* what the ledger does with add_public_key: it accepts, or the call raises
\* an exception with one of these messages
KeyOutcomes ==
    { "ok", "Smart contract panicked: public key already exists",
      "Already registered", "failed" }

\* the words of a message
Words(error_str) ==
    IF error_str = "Smart contract panicked: public key already exists"
    THEN <<"Smart", "contract", "panicked:", "public", "key", "already", "exists">>
    ELSE IF error_str = "Already registered" THEN <<"Already", "registered">>
    ELSE <<error_str>>

\* str.lower(), word by word
Lower(words) ==
    [i \in DOMAIN words |->
       IF words[i] = "Already" THEN "already"
       ELSE IF words[i] = "Smart" THEN "smart"
       ELSE words[i]]

\* phrase in text, for two sequences of words
Contains(text, phrase) ==
    \E i \in 0..(Len(text) - Len(phrase)) :
      \A j \in 1..Len(phrase) : text[i + j] = phrase[j]

\* an except clause that lets every exception of add_public_key pass
KeySwallowedAll(e) == TRUE

\* AIAgent.__init__ lines 116-121: the exceptions of add_public_key that are
\* logged and not raised again
KeySwallowed(e) ==
    \/ Contains(Words(e), <<"public", "key", "already", "exists">>)
    \/ Contains(Lower(Words(e)), <<"already", "registered">>)

\* the minimum balance of AIAgent.__init__, the float 0.1
MinimumBalance == Float(FALSE, <<3602, 8797, 189, 6397>>, 55)

(***************************************************************************)
(* State.                                                                  *)
(***************************************************************************)
VARIABLES
    pc,         \* where the caller's thread is
    op,         \* the operation under way and its arguments
    now,        \* the clock when the quote of op is built
    storage,    \* ledger: the <<token contract, account>> pairs registered
    log,        \* the ledger queries, ledger calls and relay requests of op
    reg,        \* the frame of register_token_storage
    request,    \* the params of the last quote request
    options,    \* the options of the last quote reply
    best,       \* best_option, as an index into options (0 is None)
    envelope,   \* signed_intent, once built
    published,  \* the envelopes passed to publish_intent by op
    result,     \* how op ended
    account_state,  \* what account.state() returned to the agent
    response_json,  \* the relay's last reply to a quote request
    error_str,  \* str(e) of what add_public_key raised to AIAgent.__init__
    returned,   \* the value op returned to its caller
    quotes,     \* the quotes signed so far, in order
    deposits    \* ledger: the storage_deposit calls it was sent, in order

vars == <<pc, op, now, storage, log, reg, request, options, best,
          envelope, published, result, account_state, response_json,
          error_str, returned, quotes, deposits>>

NoOp == [name |-> "none"]
NoReg == [token |-> "", account_id |-> "", ret |-> "", catch |-> FALSE]
NoRequest == [method |-> "none"]
NoEnvelope == [quote_hashes |-> <<>>, built |-> FALSE]
NoResult == [status |-> "none", error |-> ""]

NoTime == <<0>>
NoAccountState == [found |-> FALSE, balance_near |-> [isfloat |-> TRUE, neg |-> FALSE, n |-> <<0>>, k |-> 0]]
NoResponse == [kind |-> "none", message |-> ""]
NoReturn == <<>>

\* the registrations the operations of the model ask for
AllStorage ==
    {<<ASSET_MAP[t].token_id, AccountId>> : t \in DOMAIN ASSET_MAP}
    \cup {<<ASSET_MAP["NEAR"].token_id, "intents.near">>}

\* the caller is about to call one operation; the ledger holds none or all
\* of the storage registrations
Init ==
    /\ pc = "idle"
    /\ op = NoOp
    /\ now = NoTime
    /\ storage \in {{}, AllStorage}
    /\ log = <<>>
    /\ reg = NoReg
    /\ request = NoRequest
    /\ options = <<>>
    /\ best = 0
    /\ envelope = NoEnvelope
    /\ published = <<>>
    /\ result = NoResult
    /\ account_state = NoAccountState
    /\ response_json = NoResponse
    /\ error_str = ""
    /\ returned = NoReturn
    /\ quotes = <<>>
    /\ deposits = <<>>

\* one storage_deposit call as the ledger saw it: the token contract, the
\* account id of its argument and what the ledger did with it
StorageDeposit(token_id, account_id, outcome) ==
    [token_id |-> token_id, account_id |-> account_id, outcome |-> outcome]

\* one effect on a collaborator: a ledger query or call, or a relay request
Effect(kind, target, method, account_id, amount) ==
    [kind |-> kind, target |-> target, method |-> method,
     account_id |-> account_id, amount |-> amount]

\* the operation ends by raising e
Raise(e) ==
    /\ pc' = "done"
    /\ result' = [status |-> "error", error |-> e]

\* the locals of an operation before it starts and after it has ended
Cleared ==
    /\ log' = <<>>
    /\ reg' = NoReg
    /\ request' = NoRequest
    /\ options' = <<>>
    /\ best' = 0
    /\ envelope' = NoEnvelope
    /\ published' = <<>>
    /\ result' = NoResult
    /\ account_state' = NoAccountState
    /\ response_json' = NoResponse
    /\ error_str' = ""
    /\ returned' = NoReturn

\* a caller starts operation o
Begin(o, first) ==
    /\ op' = o
    /\ pc' = first
    /\ Cleared
    /\ UNCHANGED <<now, storage, quotes, deposits>>

(***************************************************************************)
(* NEARAccount.register_token_storage and intents.register_token_storage:  *)
(* a view of storage_balance_of, then storage_deposit when it is falsy.    *)
(***************************************************************************)
\* the asset table of the module the operation under way belongs to
AssetMapOf(name) ==
    IF name \in {"intents_intent_swap", "intents_intent_withdraw", "intents_intent_deposit"}
    THEN intents_ASSET_MAP ELSE ASSET_MAP

\* register_token_storage without the test of line 109: storage_deposit is
\* sent whatever the view returned
register_token_storage_view_unconditional ==
    /\ pc = "rts_view"
    /\ \E token_id \in {AssetMapOf(op.name)[reg.token].token_id} :
         /\ log' = Append(log, Effect("view", token_id, "storage_balance_of",
                                      reg.account_id, <<>>))
         /\ pc' = "rts_deposit"
    /\ UNCHANGED <<op, now, storage, reg, request, options, best,
                   envelope, published, result>>
    /\ UNCHANGED <<account_state, response_json, error_str, returned>>
    /\ UNCHANGED quotes
    /\ UNCHANGED deposits

register_token_storage_view ==
    /\ pc = "rts_view"
    /\ \E token_id \in {AssetMapOf(op.name)[reg.token].token_id} :
         /\ log' = Append(log, Effect("view", token_id, "storage_balance_of",
                                      reg.account_id, <<>>))
         /\ pc' = IF <<token_id, reg.account_id>> \in storage THEN reg.ret ELSE "rts_deposit"
    /\ UNCHANGED <<op, now, storage, reg, request, options, best,
                   envelope, published, result>>
    /\ UNCHANGED <<account_state, response_json, error_str, returned>>
    /\ UNCHANGED quotes
    /\ UNCHANGED deposits

register_token_storage_deposit ==
    /\ pc = "rts_deposit"
    /\ \E token_id \in {AssetMapOf(op.name)[reg.token].token_id},
          outcome \in LedgerOutcomes :
         /\ log' = Append(log, Effect("call", token_id, "storage_deposit",
                                      reg.account_id, <<>>))
         /\ storage' = IF outcome = "ok" THEN storage \cup {<<token_id, reg.account_id>>}
                       ELSE storage
         /\ deposits' = Append(deposits, StorageDeposit(token_id, reg.account_id, outcome))
         /\ IF outcome = "ok" \/ (outcome = "already registered" /\ reg.catch)
            THEN pc' = reg.ret /\ UNCHANGED result
            ELSE Raise(outcome)
    /\ UNCHANGED <<op, now, reg, request, options, best, envelope, published>>
    /\ UNCHANGED <<account_state, response_json, error_str, returned>>
    /\ UNCHANGED quotes

(***************************************************************************)
(* Quotes, signing and the relay messages of near_intents.py.              *)
(***************************************************************************)
\* sign_quote signing another serialization of the quote than the payload
sign_quote_reserialized(account_id, quote) ==
    [standard |-> "raw_ed25519", payload |-> quote,
     signature |-> Concat("ed25519:", [signed |-> <<"reserialized", quote>>, by |-> account_id]),
     public_key |-> PublicKey]

\* sign_quote that writes the key in hexadecimal
sign_quote_hex_key(account_id, quote) ==
    [standard |-> "raw_ed25519", payload |-> quote,
     signature |-> Concat("ed25519:", [signed |-> quote, by |-> account_id]),
     public_key |-> Concat("ed25519:", "hex(public_key)")]

\* sign_quote of both modules: the signature is the signer's over the bytes
\* of the quote string, and the same string is the payload
sign_quote(account_id, quote) ==
    [standard |-> "raw_ed25519", payload |-> quote,
     signature |-> Concat("ed25519:", [signed |-> quote, by |-> account_id]),
     public_key |-> PublicKey]

\* str(int(time.time() * 1000) + 120000)
DeadlineAfter(t) == NatToDigits(Add(DigitsToNat(t), DigitsToNat(<<1, 2, 0, 0, 0, 0>>)))

\* the dict literal {k1: v1, k2: v2}: the later entry wins on an equal key
Dict2(k1, v1, k2, v2) == (k2 :> v2) @@ (k1 :> v1)

\* near_intents.create_token_diff_quote, for tokens of ASSET_MAP and an
\* amount_out that is a string of digits
create_token_diff_quote(account_id, token_in, amount_in, token_out, amount_out, nonce, t) ==
    sign_quote(account_id,
      [nonce |-> nonce, signer_id |-> account_id, verifying_contract |-> "intents.near",
       deadline |-> DeadlineAfter(t),
       intents |-> <<[intent |-> "token_diff",
                      diff |-> Dict2(get_asset_id(token_in),
                                     MinusSign \o to_decimals(ToFloat(amount_in),
                                                              ASSET_MAP[token_in].decimals),
                                     get_asset_id(token_out),
                                     to_decimals(ParseFloat(amount_out),
                                                 ASSET_MAP[token_out].decimals))]>>])

\* IntentRequest().set_asset_in(token_in, amount_in).set_asset_out(token_out)
\* .serialize(), for tokens of ASSET_MAP: no amount is given for the output
serialize(token_in, amount_in, token_out) ==
    [method |-> "quote",
     defuse_asset_identifier_in |-> get_asset_id(token_in),
     defuse_asset_identifier_out |-> get_asset_id(token_out),
     exact_amount_in |-> to_decimals(amount_in, ASSET_MAP[token_in].decimals),
     min_deadline_ms |-> 120000]

\* PublishIntent(signed_data=quote) with the quote_hashes left out
PublishIntentWithoutHashes(signed_data, quote_hashes) ==
    [signed_data |-> signed_data, quote_hashes |-> <<>>, built |-> TRUE]

\* PublishIntent(signed_data=quote, quote_hashes=...)
PublishIntent(signed_data, quote_hashes) ==
    [signed_data |-> signed_data, quote_hashes |-> quote_hashes, built |-> TRUE]

(***************************************************************************)
(* near_intents.publish_intent, as the last statement of intent_swap and   *)
(* of intent_withdraw: the envelope is posted and the reply returned.      *)
(***************************************************************************)
\* publish_intent that posts the envelope a second time when the first
\* request fails
publish_intent_retrying ==
    /\ pc = "publish"
    /\ \E reply \in PublishReplies :
         IF reply = "unreachable"
         THEN /\ log' = Append(Append(log, Effect("rpc", "relay", "publish_intent", "", <<>>)),
                               Effect("rpc", "relay", "publish_intent", "", <<>>))
              /\ published' = Append(Append(published, envelope), envelope)
              /\ \E second \in PublishReplies :
                   IF second = "unreachable"
                   THEN Raise("ConnectionError")
                   ELSE pc' = "done" /\ result' = [status |-> "ok", error |-> ""]
         ELSE /\ log' = Append(log, Effect("rpc", "relay", "publish_intent", "", <<>>))
              /\ published' = Append(published, envelope)
              /\ pc' = "done"
              /\ result' = [status |-> "ok", error |-> ""]
    /\ UNCHANGED <<op, now, storage, reg, request, options, best, envelope>>
    /\ UNCHANGED <<account_state, response_json, error_str, returned>>
    /\ UNCHANGED quotes
    /\ UNCHANGED deposits

publish_intent ==
    /\ pc = "publish"
    /\ log' = Append(log, Effect("rpc", "relay", "publish_intent", "", <<>>))
    /\ published' = Append(published, envelope)
    /\ \E reply \in PublishReplies :
         IF reply = "unreachable"
         THEN Raise("ConnectionError")
         ELSE pc' = "done" /\ result' = [status |-> "ok", error |-> ""]
    /\ UNCHANGED <<op, now, storage, reg, request, options, best, envelope>>
    /\ UNCHANGED <<account_state, response_json, error_str, returned>>
    /\ UNCHANGED quotes
    /\ UNCHANGED deposits

(***************************************************************************)
(* near_intents.intent_swap.                                               *)
(***************************************************************************)
Call_intent_swap ==
    /\ pc = "idle"
    /\ \E token_in \in Tokens, token_out \in Tokens, amount_in \in AmountsIn :
         Begin([name |-> "intent_swap", token_in |-> token_in,
                amount_in |-> amount_in, token_out |-> token_out], "swap_reg_in")

\* line 304: register_token_storage(account, token_in); ASSET_MAP[token]
\* raises KeyError before the view
intent_swap_register_in ==
    /\ pc = "swap_reg_in"
    /\ IF op.token_in \in DOMAIN ASSET_MAP
       THEN /\ reg' = [token |-> op.token_in, account_id |-> AccountId,
                       ret |-> "swap_reg_out", catch |-> FALSE]
            /\ pc' = "rts_view"
            /\ UNCHANGED result
       ELSE Raise("KeyError") /\ UNCHANGED reg
    /\ UNCHANGED <<op, now, storage, log, request, options, best,
                   envelope, published>>
    /\ UNCHANGED <<account_state, response_json, error_str, returned>>
    /\ UNCHANGED quotes
    /\ UNCHANGED deposits

\* intent_swap without line 305: the output token is not registered
intent_swap_register_out_skipped ==
    /\ pc = "swap_reg_out"
    /\ IF op.token_out \in DOMAIN ASSET_MAP
       THEN pc' = "swap_fetch" /\ UNCHANGED result
       ELSE Raise("KeyError")
    /\ UNCHANGED <<op, now, storage, log, reg, request, options, best,
                   envelope, published>>
    /\ UNCHANGED <<account_state, response_json, error_str, returned>>
    /\ UNCHANGED quotes
    /\ UNCHANGED deposits

\* line 305: register_token_storage(account, token_out)
intent_swap_register_out ==
    /\ pc = "swap_reg_out"
    /\ IF op.token_out \in DOMAIN ASSET_MAP
       THEN /\ reg' = [token |-> op.token_out, account_id |-> AccountId,
                       ret |-> "swap_fetch", catch |-> FALSE]
            /\ pc' = "rts_view"
            /\ UNCHANGED result
       ELSE Raise("KeyError") /\ UNCHANGED reg
    /\ UNCHANGED <<op, now, storage, log, request, options, best,
                   envelope, published>>
    /\ UNCHANGED <<account_state, response_json, error_str, returned>>
    /\ UNCHANGED quotes
    /\ UNCHANGED deposits

\* lines 308-313: the request is built and sent; a reply without "result"
\* gives the empty list.  best_option of this call is not assigned yet
intent_swap_fetch ==
    /\ pc = "swap_fetch"
    /\ request' = serialize(op.token_in, op.amount_in, op.token_out)
    /\ log' = Append(log, Effect("rpc", "relay", "quote", "", <<>>))
    /\ \E reply \in QuoteReplies :
         IF reply.kind = "unreachable"
         THEN Raise("ConnectionError") /\ UNCHANGED <<options, best, response_json>>
         ELSE /\ response_json' = ResponseOf(reply)
              /\ options' = reply.options
              /\ best' = 0
              /\ pc' = "swap_select"
              /\ UNCHANGED result
    /\ UNCHANGED <<op, now, storage, reg, envelope, published, account_state>>
    /\ UNCHANGED <<error_str, returned>>
    /\ UNCHANGED quotes
    /\ UNCHANGED deposits

\* lines 314-317 with "return None" in the place of the raise
intent_swap_select_returns_none ==
    /\ pc = "swap_select"
    /\ \E b \in {select_best_option(options)} :
         /\ best' = b
         /\ IF b = 0 \/ ~Truthy(options[b])
            THEN pc' = "done" /\ result' = [status |-> "ok", error |-> ""]
            ELSE pc' = "swap_sign" /\ UNCHANGED result
    /\ UNCHANGED <<op, now, storage, log, reg, request, options, envelope, published>>
    /\ UNCHANGED <<account_state, response_json, error_str, returned>>
    /\ UNCHANGED quotes
    /\ UNCHANGED deposits

\* lines 314-317
intent_swap_select ==
    /\ pc = "swap_select"
    /\ \E b \in {select_best_option(options)} :
         /\ best' = b
         /\ IF b = 0 \/ ~Truthy(options[b])
            THEN Raise("ValueError: No valid swap options available from solver bus")
            ELSE pc' = "swap_sign" /\ UNCHANGED result
    /\ UNCHANGED <<op, now, storage, log, reg, request, options, envelope, published>>
    /\ UNCHANGED <<account_state, response_json, error_str, returned>>
    /\ UNCHANGED quotes
    /\ UNCHANGED deposits

\* lines 320-326: best_option['amount_out'] and best_option['quote_hash']
\* raise KeyError when the key is absent, the second after the quote has been
\* built and signed; the quote is built at time t with a random nonce
intent_swap_sign ==
    /\ pc = "swap_sign"
    /\ IF ~options[best].has_amount
       THEN Raise("KeyError") /\ UNCHANGED <<now, envelope, quotes>>
       ELSE \E nonce \in Nonces, t \in Times :
              \E quote \in {create_token_diff_quote(AccountId, op.token_in, op.amount_in,
                                 op.token_out, options[best].amount_out, nonce, t)} :
                /\ now' = t
                /\ quotes' = Append(quotes, quote)
                /\ IF ~options[best].has_hash
                   THEN Raise("KeyError") /\ UNCHANGED envelope
                   ELSE /\ envelope' = PublishIntent(quote, <<options[best].quote_hash>>)
                        /\ pc' = "publish"
                        /\ UNCHANGED result
    /\ UNCHANGED <<op, storage, log, reg, request, options, best, published>>
    /\ UNCHANGED <<account_state, response_json, error_str, returned>>
    /\ UNCHANGED deposits

(***************************************************************************)
(* near_intents.intent_withdraw.                                           *)
(***************************************************************************)
Call_intent_withdraw ==
    /\ pc = "idle"
    /\ \E destination_address \in Destinations, token \in Tokens,
          amount \in AmountsIn, network \in Networks :
         Begin([name |-> "intent_withdraw", destination_address |-> destination_address,
                token |-> token, amount |-> amount, network |-> network], "withdraw_sign")

\* the ft_withdraw intent of lines 345-350 without the retargeting of
\* lines 351-356
withdraw_intent_direct(destination_address, token, amount, network) ==
    [intent |-> "ft_withdraw", token |-> ASSET_MAP[token].token_id,
     receiver_id |-> destination_address,
     amount |-> to_decimals(amount, ASSET_MAP[token].decimals)]

\* the ft_withdraw intent of lines 345-356, for a token of ASSET_MAP that
\* has the key 'omft' when the network is not 'near'
withdraw_intent(destination_address, token, amount, network) ==
    IF network # "near"
    THEN [intent |-> "ft_withdraw", token |-> ASSET_MAP[token].omft,
          receiver_id |-> ASSET_MAP[token].omft,
          amount |-> to_decimals(amount, ASSET_MAP[token].decimals),
          memo |-> Concat("WITHDRAW_TO:", destination_address)]
    ELSE [intent |-> "ft_withdraw", token |-> ASSET_MAP[token].token_id,
          receiver_id |-> destination_address,
          amount |-> to_decimals(amount, ASSET_MAP[token].decimals)]

\* lines 338-358: ASSET_MAP[token] and ASSET_MAP[token]['omft'] raise
\* KeyError when the key is absent
intent_withdraw_sign ==
    /\ pc = "withdraw_sign"
    /\ IF \/ op.token \notin DOMAIN ASSET_MAP
          \/ (op.network # "near" /\ "omft" \notin DOMAIN ASSET_MAP[op.token])
       THEN Raise("KeyError") /\ UNCHANGED <<now, envelope, quotes>>
       ELSE /\ \E nonce \in Nonces, t \in Times :
                 /\ now' = t
                 /\ envelope' = PublishIntent(
                      sign_quote(AccountId,
                        [signer_id |-> AccountId, nonce |-> nonce,
                         verifying_contract |-> "intents.testnet",
                         deadline |-> "2025-12-31T11:59:59.000Z",
                         intents |-> <<withdraw_intent(op.destination_address, op.token,
                                                       op.amount, op.network)>>]),
                      <<>>)
            /\ quotes' = Append(quotes, envelope'.signed_data)
            /\ pc' = "publish"
            /\ UNCHANGED result
    /\ UNCHANGED <<op, storage, log, reg, request, options, best, published>>
    /\ UNCHANGED <<account_state, response_json, error_str, returned>>
    /\ UNCHANGED deposits

(***************************************************************************)
(* intents.py at the top level of the repository: intent_swap and          *)
(* intent_withdraw with their own asset table, selection and quote.        *)
(***************************************************************************)
\* IntentRequest().asset_in(token_in, amount_in).asset_out(token_out)
\* .serialize(), for tokens of intents.ASSET_MAP
intents_serialize(token_in, amount_in, token_out) ==
    [method |-> "quote",
     defuse_asset_identifier_in |-> intents_get_asset_id(token_in),
     defuse_asset_identifier_out |-> intents_get_asset_id(token_out),
     exact_amount_in |-> to_decimals(amount_in, intents_ASSET_MAP[token_in].decimals),
     min_deadline_ms |-> 120000]

\* intents.create_token_diff_quote: both amounts are strings and enter the
\* diff as they are
intents_create_token_diff_quote(account_id, token_in, amount_in, token_out, amount_out, nonce) ==
    sign_quote(account_id,
      [signer_id |-> account_id, nonce |-> nonce, verifying_contract |-> "intents.near",
       deadline |-> "2025-12-31T11:59:59.000Z",
       intents |-> <<[intent |-> "token_diff",
                      diff |-> Dict2(intents_get_asset_id(token_in), MinusSign \o amount_in,
                                     intents_get_asset_id(token_out), amount_out)]>>])

\* intents.publish_intent, the last statement of both operations
intents_publish_intent ==
    /\ pc = "intents_publish"
    /\ log' = Append(log, Effect("rpc", "relay", "publish_intent", "", <<>>))
    /\ published' = Append(published, envelope)
    /\ \E reply \in PublishReplies :
         IF reply = "unreachable"
         THEN Raise("ConnectionError")
         ELSE pc' = "done" /\ result' = [status |-> "ok", error |-> ""]
    /\ UNCHANGED <<op, now, storage, reg, request, options, best, envelope>>
    /\ UNCHANGED <<account_state, response_json, error_str, returned>>
    /\ UNCHANGED quotes
    /\ UNCHANGED deposits

Call_intents_intent_swap ==
    /\ pc = "idle"
    /\ \E token_in \in Tokens, token_out \in Tokens, amount_in \in AmountsIn :
         Begin([name |-> "intents_intent_swap", token_in |-> token_in,
                amount_in |-> amount_in, token_out |-> token_out], "intents_swap_fetch")

\* line 210: get_asset_id raises KeyError for a token outside the table
intents_intent_swap_fetch ==
    /\ pc = "intents_swap_fetch"
    /\ IF op.token_in \notin DOMAIN intents_ASSET_MAP
          \/ op.token_out \notin DOMAIN intents_ASSET_MAP
       THEN Raise("KeyError") /\ UNCHANGED <<request, log, options, response_json>>
       ELSE /\ request' = intents_serialize(op.token_in, op.amount_in, op.token_out)
            /\ log' = Append(log, Effect("rpc", "relay", "quote", "", <<>>))
            /\ \E reply \in QuoteReplies :
                 IF reply.kind = "unreachable"
                 THEN Raise("ConnectionError") /\ UNCHANGED <<options, response_json>>
                 ELSE /\ response_json' = ResponseOf(reply)
                      /\ options' = reply.options
                      /\ pc' = "intents_swap_select"
                      /\ UNCHANGED result
    /\ UNCHANGED <<op, now, storage, reg, best, envelope, published, account_state>>
    /\ UNCHANGED <<error_str, returned>>
    /\ UNCHANGED quotes
    /\ UNCHANGED deposits

\* line 211
intents_intent_swap_select ==
    /\ pc = "intents_swap_select"
    /\ \E sel \in {intents_select_best_option(options)} :
         /\ best' = sel.best
         /\ IF sel.error # ""
            THEN Raise(sel.error)
            ELSE pc' = "intents_swap_sign" /\ UNCHANGED result
    /\ UNCHANGED <<op, now, storage, log, reg, request, options, envelope, published>>
    /\ UNCHANGED <<account_state, response_json, error_str, returned>>
    /\ UNCHANGED quotes
    /\ UNCHANGED deposits

\* lines 212-214: None['amount_out'] raises TypeError, an absent key
\* KeyError, that of quote_hash after the quote has been built and signed;
\* the quote is built at time t
intents_intent_swap_sign ==
    /\ pc = "intents_swap_sign"
    /\ IF best = 0
       THEN Raise("TypeError") /\ UNCHANGED <<now, envelope, quotes>>
       ELSE IF ~options[best].has_amount
       THEN Raise("KeyError") /\ UNCHANGED <<now, envelope, quotes>>
       ELSE \E nonce \in Nonces, t \in Times :
              \E quote \in {intents_create_token_diff_quote(AccountId, op.token_in,
                                 to_decimals(op.amount_in,
                                             intents_ASSET_MAP[op.token_in].decimals),
                                 op.token_out, options[best].amount_out, nonce)} :
                /\ now' = t
                /\ quotes' = Append(quotes, quote)
                /\ IF ~options[best].has_hash
                   THEN Raise("KeyError") /\ UNCHANGED envelope
                   ELSE /\ envelope' = PublishIntent(quote, <<options[best].quote_hash>>)
                        /\ pc' = "intents_publish"
                        /\ UNCHANGED result
    /\ UNCHANGED <<op, storage, log, reg, request, options, best, published>>
    /\ UNCHANGED <<account_state, response_json, error_str, returned>>
    /\ UNCHANGED deposits

Call_intents_intent_withdraw ==
    /\ pc = "idle"
    /\ \E destination_address \in Destinations, token \in Tokens,
          amount \in AmountsIn, network \in Networks :
         Begin([name |-> "intents_intent_withdraw",
                destination_address |-> destination_address,
                token |-> token, amount |-> amount, network |-> network],
               "intents_withdraw_sign")

\* lines 221-239: quote["intents"] is a list, so the assignment of the memo
\* raises TypeError when the network is not 'near'; the quote is built at
\* time t
intents_intent_withdraw_sign ==
    /\ pc = "intents_withdraw_sign"
    /\ IF op.token \notin DOMAIN intents_ASSET_MAP
       THEN Raise("KeyError") /\ UNCHANGED <<now, envelope, quotes>>
       ELSE IF op.network # "near"
       THEN Raise("TypeError") /\ UNCHANGED <<now, envelope, quotes>>
       ELSE /\ \E nonce \in Nonces, t \in Times :
                 /\ now' = t
                 /\ envelope' = PublishIntent(
                      sign_quote(AccountId,
                        [signer_id |-> AccountId, nonce |-> nonce,
                         verifying_contract |-> "intents.near",
                         deadline |-> "2025-12-31T11:59:59.000Z",
                         intents |-> <<[intent |-> "ft_withdraw",
                                        token |-> intents_ASSET_MAP[op.token].token_id,
                                        receiver_id |-> op.destination_address,
                                        amount |-> to_decimals(op.amount,
                                            intents_ASSET_MAP[op.token].decimals)]>>]),
                      <<>>)
            /\ quotes' = Append(quotes, envelope'.signed_data)
            /\ pc' = "intents_publish"
            /\ UNCHANGED result
    /\ UNCHANGED <<op, storage, log, reg, request, options, best, published>>
    /\ UNCHANGED <<account_state, response_json, error_str, returned>>
    /\ UNCHANGED deposits

(***************************************************************************)
(* AIAgent.swap_near_to_token (intents/ai_agent.py).                       *)
(***************************************************************************)
Call_swap_near_to_token ==
    /\ pc = "idle"
    /\ \E target_token \in Tokens, amount_in \in AmountsIn :
         Begin([name |-> "swap_near_to_token", token_in |-> "NEAR",
                amount_in |-> amount_in, token_out |-> target_token], "agent_swap_validate")

\* lines 185-189
swap_near_to_token_validate ==
    /\ pc = "agent_swap_validate"
    /\ IF NotPositive(op.amount_in)
       THEN Raise("ValueError: Swap amount must be greater than 0")
       ELSE IF op.token_out \notin DOMAIN ASSET_MAP
       THEN Raise("ValueError: Unsupported target token")
       ELSE pc' = "agent_swap_state" /\ UNCHANGED result
    /\ UNCHANGED <<op, now, storage, log, reg, request, options, best,
                   envelope, published>>
    /\ UNCHANGED <<account_state, response_json, error_str, returned>>
    /\ UNCHANGED quotes
    /\ UNCHANGED deposits

\* lines 194-201
swap_near_to_token_state ==
    /\ pc = "agent_swap_state"
    /\ log' = Append(log, Effect("query", "ledger", "view_account", AccountId, <<>>))
    /\ \E st \in AccountStates :
         /\ account_state' = st
         /\ IF ~st.found
            THEN Raise("ValueError: Account not found or not accessible")
            ELSE IF Insufficient(st.balance_near, op.amount_in)
            THEN Raise("ValueError: Insufficient balance")
            ELSE pc' = "agent_swap_fetch" /\ UNCHANGED result
    /\ UNCHANGED <<op, now, storage, reg, request, options, best,
                   envelope, published, response_json>>
    /\ UNCHANGED <<error_str, returned>>
    /\ UNCHANGED quotes
    /\ UNCHANGED deposits

\* lines 204-205
swap_near_to_token_fetch ==
    /\ pc = "agent_swap_fetch"
    /\ request' = serialize("NEAR", op.amount_in, op.token_out)
    /\ log' = Append(log, Effect("rpc", "relay", "quote", "", <<>>))
    /\ \E reply \in QuoteReplies :
         IF reply.kind = "unreachable"
         THEN Raise("ConnectionError") /\ UNCHANGED <<options, response_json>>
         ELSE /\ response_json' = ResponseOf(reply)
              /\ options' = reply.options
              /\ pc' = "agent_swap_select"
              /\ UNCHANGED result
    /\ UNCHANGED <<op, now, storage, reg, best, envelope, published, account_state>>
    /\ UNCHANGED <<error_str, returned>>
    /\ UNCHANGED quotes
    /\ UNCHANGED deposits

\* lines 207-215: the agent's own best_option is only logged, then
\* intent_swap is called with the arguments of the agent's request
swap_near_to_token_select ==
    /\ pc = "agent_swap_select"
    /\ IF Len(options) = 0
       THEN Raise("ValueError: No swap options available") /\ UNCHANGED best
       ELSE /\ best' = select_best_option(options)
            /\ pc' = "swap_reg_in"
            /\ UNCHANGED result
    /\ UNCHANGED <<op, now, storage, log, reg, request, options, envelope, published>>
    /\ UNCHANGED <<account_state, response_json, error_str, returned>>
    /\ UNCHANGED quotes
    /\ UNCHANGED deposits

(***************************************************************************)
(* AIAgent.deposit_near and near_intents.intent_deposit.                   *)
(***************************************************************************)
Call_deposit_near ==
    /\ pc = "idle"
    /\ \E amount \in AmountsIn :
         Begin([name |-> "deposit_near", token |-> "NEAR", amount |-> amount],
               "deposit_validate")

\* lines 134-135
deposit_near_validate ==
    /\ pc = "deposit_validate"
    /\ IF NotPositive(op.amount)
       THEN Raise("ValueError: Deposit amount must be greater than 0")
       ELSE pc' = "deposit_state" /\ UNCHANGED result
    /\ UNCHANGED <<op, now, storage, log, reg, request, options, best,
                   envelope, published>>
    /\ UNCHANGED <<account_state, response_json, error_str, returned>>
    /\ UNCHANGED quotes
    /\ UNCHANGED deposits

\* lines 141-157: the balance check, then register_token_storage for
\* intents.near inside a try that lets "already registered" pass
deposit_near_state ==
    /\ pc = "deposit_state"
    /\ log' = Append(log, Effect("query", "ledger", "view_account", AccountId, <<>>))
    /\ \E st \in AccountStates :
         /\ account_state' = st
         /\ IF ~st.found
            THEN Raise("ValueError: Account not found or not accessible") /\ UNCHANGED reg
            ELSE IF Insufficient(st.balance_near, op.amount)
            THEN Raise("ValueError: Insufficient balance") /\ UNCHANGED reg
            ELSE /\ reg' = [token |-> "NEAR", account_id |-> "intents.near",
                            ret |-> "deposit_wrap", catch |-> TRUE]
                 /\ pc' = "rts_view"
                 /\ UNCHANGED result
    /\ UNCHANGED <<op, now, storage, request, options, best, envelope, published,
                   response_json>>
    /\ UNCHANGED <<error_str, returned>>
    /\ UNCHANGED quotes
    /\ UNCHANGED deposits

\* the amount intent_deposit is called with: AIAgent.deposit_near passes
\* float(amount), a direct caller its own number
AmountPassed == IF op.name = "deposit_near" THEN ToFloat(op.amount) ELSE op.amount

\* near_intents.intent_deposit called directly
Call_intent_deposit ==
    /\ pc = "idle"
    /\ \E token \in Tokens, amount \in AmountsIn :
         Begin([name |-> "intent_deposit", token |-> token, amount |-> amount],
               "deposit_begin")

\* intent_deposit lines 180-182 and 194: ASSET_MAP[token] raises KeyError
\* for a token that is not NEAR and not in the table
intent_deposit_begin ==
    /\ pc = "deposit_begin"
    /\ IF op.token = "NEAR" THEN pc' = "deposit_wrap" /\ UNCHANGED result
       ELSE IF op.token \notin DOMAIN ASSET_MAP THEN Raise("KeyError")
       ELSE pc' = "deposit_transfer" /\ UNCHANGED result
    /\ UNCHANGED <<op, now, storage, log, reg, request, options, best, envelope, published>>
    /\ UNCHANGED <<account_state, response_json, error_str, returned>>
    /\ UNCHANGED quotes
    /\ UNCHANGED deposits

\* intent_deposit lines 181-186: NEAR is wrapped first, the attached deposit
\* is int(amount_raw)
intent_deposit_wrap ==
    /\ pc = "deposit_wrap"
    /\ log' = Append(log, Effect("call", "wrap.near", "near_deposit", "",
                  Str(ParseInt(to_decimals(AmountPassed, ASSET_MAP[op.token].decimals)))))
    /\ \E outcome \in CallOutcomes :
         IF outcome = "ok" THEN pc' = "deposit_transfer" /\ UNCHANGED result
         ELSE Raise(outcome)
    /\ UNCHANGED <<op, now, storage, reg, request, options, best,
                   envelope, published>>
    /\ UNCHANGED <<account_state, response_json, error_str, returned>>
    /\ UNCHANGED quotes
    /\ UNCHANGED deposits

\* intent_deposit lines 187-191 for NEAR, lines 196-200 for another token
intent_deposit_transfer ==
    /\ pc = "deposit_transfer"
    /\ log' = Append(log, Effect("call", ASSET_MAP[op.token].token_id, "ft_transfer_call",
                  "intents.near", to_decimals(AmountPassed, ASSET_MAP[op.token].decimals)))
    /\ \E outcome \in CallOutcomes :
         IF outcome = "ok"
         THEN pc' = "done" /\ result' = [status |-> "ok", error |-> ""]
         ELSE Raise(outcome)
    /\ UNCHANGED <<op, now, storage, reg, request, options, best,
                   envelope, published>>
    /\ UNCHANGED <<account_state, response_json, error_str, returned>>
    /\ UNCHANGED quotes
    /\ UNCHANGED deposits

(***************************************************************************)
(* get_asset_id of both modules and the IntentRequest of near_intents,     *)
(* called on their own.                                                    *)
(***************************************************************************)
Call_get_asset_id ==
    /\ pc = "idle"
    /\ \E token \in Tokens : Begin([name |-> "get_asset_id", token |-> token], "get_asset_id")

\* near_intents.get_asset_id lines 127-131
Return_get_asset_id ==
    /\ pc = "get_asset_id"
    /\ IF op.token \in {"NEAR", "USDC"} \cup DOMAIN ASSET_MAP
       THEN /\ returned' = get_asset_id(op.token)
            /\ pc' = "done"
            /\ result' = [status |-> "ok", error |-> ""]
       ELSE Raise("KeyError") /\ UNCHANGED returned
    /\ UNCHANGED <<op, now, storage, log, reg, request, options, best, envelope, published>>
    /\ UNCHANGED <<account_state, response_json, error_str>>
    /\ UNCHANGED quotes
    /\ UNCHANGED deposits

Call_intents_get_asset_id ==
    /\ pc = "idle"
    /\ \E token \in Tokens :
         Begin([name |-> "intents_get_asset_id", token |-> token], "intents_get_asset_id")

\* intents.get_asset_id line 87
Return_intents_get_asset_id ==
    /\ pc = "intents_get_asset_id"
    /\ IF op.token \in DOMAIN intents_ASSET_MAP
       THEN /\ returned' = intents_get_asset_id(op.token)
            /\ pc' = "done"
            /\ result' = [status |-> "ok", error |-> ""]
       ELSE Raise("KeyError") /\ UNCHANGED returned
    /\ UNCHANGED <<op, now, storage, log, reg, request, options, best, envelope, published>>
    /\ UNCHANGED <<account_state, response_json, error_str>>
    /\ UNCHANGED quotes
    /\ UNCHANGED deposits

\* a value that may be None is a sequence of at most one value
None == <<>>

Some(x) == <<x>>

IsNone(x) == Len(x) = 0

\* bool(amount) of a number or None
AmountTruthy(amount) == ~IsNone(amount) /\ ~IsZero(amount[1].n)

\* the output amounts a caller passes: none, 0.0 and 1.0
AmountsOut == {None, Some(Float(FALSE, <<0>>, 0)), Some(Float(FALSE, <<1>>, 0))}

\* the chains IntentRequest()[.set_asset_in(token_in, amount_in)]
\* [.set_asset_out(token_out, amount_out)].serialize() a caller writes
RequestChains ==
    { [name |-> "IntentRequest", with_in |-> TRUE, token_in |-> t, amount_in |-> a,
       with_out |-> wo, token_out |-> u, amount_out |-> b]
      : t \in Tokens, a \in {Float(FALSE, <<1>>, 0), PyInt(FALSE, <<1>>)},
        wo \in BOOLEAN, u \in Tokens, b \in AmountsOut }
    \cup
    { [name |-> "IntentRequest", with_in |-> FALSE, token_in |-> "NEAR",
       amount_in |-> PyInt(FALSE, <<1>>),
       with_out |-> wo, token_out |-> u, amount_out |-> None]
      : wo \in BOOLEAN, u \in Tokens }

\* IntentRequest.__init__ lines 212-217
IntentRequest_new == [asset_in |-> None, asset_out |-> None, min_deadline_ms |-> 120000]

\* set_asset_in lines 221-225, for a token of ASSET_MAP
set_asset_in(self, asset_name, amount) ==
    [self EXCEPT !.asset_in =
       Some([asset |-> get_asset_id(asset_name),
             amount |-> Some(to_decimals(amount, ASSET_MAP[asset_name].decimals))])]

\* set_asset_out lines 229-233, for a token of ASSET_MAP
set_asset_out(self, asset_name, amount) ==
    [self EXCEPT !.asset_out =
       Some([asset |-> get_asset_id(asset_name),
             amount |-> IF AmountTruthy(amount)
                        THEN Some(to_decimals(amount[1], ASSET_MAP[asset_name].decimals))
                        ELSE None])]

\* the message of serialize, lines 240-250, for a request with both assets
IntentRequest_message(self) ==
    IF IsNone(self.asset_out[1].amount)
    THEN [defuse_asset_identifier_in |-> self.asset_in[1].asset,
          defuse_asset_identifier_out |-> self.asset_out[1].asset,
          exact_amount_in |-> self.asset_in[1].amount[1],
          min_deadline_ms |-> self.min_deadline_ms]
    ELSE [defuse_asset_identifier_in |-> self.asset_in[1].asset,
          defuse_asset_identifier_out |-> self.asset_out[1].asset,
          exact_amount_in |-> self.asset_in[1].amount[1],
          min_deadline_ms |-> self.min_deadline_ms,
          exact_amount_out |-> self.asset_out[1].amount[1]]

Call_IntentRequest ==
    /\ pc = "idle"
    /\ \E chain \in RequestChains : Begin(chain, "request_new")

\* IntentRequest()
IntentRequest_init ==
    /\ pc = "request_new"
    /\ returned' = IntentRequest_new
    /\ pc' = "request_in"
    /\ UNCHANGED <<op, now, storage, log, reg, request, options, best, envelope, published>>
    /\ UNCHANGED <<result, account_state, response_json, error_str>>
    /\ UNCHANGED quotes
    /\ UNCHANGED deposits

\* set_asset_in that takes the symbol as the token id of an unknown asset
IntentRequest_set_asset_in_lenient ==
    /\ pc = "request_in"
    /\ returned' = IF ~op.with_in THEN returned
                   ELSE IF op.token_in \in DOMAIN ASSET_MAP
                   THEN set_asset_in(returned, op.token_in, op.amount_in)
                   ELSE [returned EXCEPT !.asset_in =
                           Some([asset |-> Concat("nep141:", op.token_in),
                                 amount |-> Some(to_decimals(op.amount_in, 0))])]
    /\ pc' = "request_out"
    /\ UNCHANGED <<op, now, storage, log, reg, request, options, best, envelope, published>>
    /\ UNCHANGED <<result, account_state, response_json, error_str>>
    /\ UNCHANGED quotes
    /\ UNCHANGED deposits

\* .set_asset_in(token_in, amount_in), when the chain holds it:
\* get_asset_id raises KeyError for an unknown symbol
IntentRequest_set_asset_in ==
    /\ pc = "request_in"
    /\ IF ~op.with_in
       THEN pc' = "request_out" /\ UNCHANGED <<returned, result>>
       ELSE IF op.token_in \notin DOMAIN ASSET_MAP
       THEN Raise("KeyError") /\ UNCHANGED returned
       ELSE /\ returned' = set_asset_in(returned, op.token_in, op.amount_in)
            /\ pc' = "request_out"
            /\ UNCHANGED result
    /\ UNCHANGED <<op, now, storage, log, reg, request, options, best, envelope, published>>
    /\ UNCHANGED <<account_state, response_json, error_str>>
    /\ UNCHANGED quotes
    /\ UNCHANGED deposits

\* .set_asset_out(token_out, amount_out), when the chain holds it
IntentRequest_set_asset_out ==
    /\ pc = "request_out"
    /\ IF ~op.with_out
       THEN pc' = "request_serialize" /\ UNCHANGED <<returned, result>>
       ELSE IF op.token_out \notin DOMAIN ASSET_MAP
       THEN Raise("KeyError") /\ UNCHANGED returned
       ELSE /\ returned' = set_asset_out(returned, op.token_out, op.amount_out)
            /\ pc' = "request_serialize"
            /\ UNCHANGED result
    /\ UNCHANGED <<op, now, storage, log, reg, request, options, best, envelope, published>>
    /\ UNCHANGED <<account_state, response_json, error_str>>
    /\ UNCHANGED quotes
    /\ UNCHANGED deposits

\* .serialize() lines 237-250
IntentRequest_serialize ==
    /\ pc = "request_serialize"
    /\ IF IsNone(returned.asset_in) \/ IsNone(returned.asset_out)
       THEN /\ Raise("ValueError: Both input and output assets must be specified")
            /\ UNCHANGED returned
       ELSE /\ returned' = IntentRequest_message(returned)
            /\ pc' = "done"
            /\ result' = [status |-> "ok", error |-> ""]
    /\ UNCHANGED <<op, now, storage, log, reg, request, options, best, envelope, published>>
    /\ UNCHANGED <<account_state, response_json, error_str>>
    /\ UNCHANGED quotes
    /\ UNCHANGED deposits

(***************************************************************************)
(* AIAgent.__init__ and near_intents.register_intent_public_key.           *)
(***************************************************************************)
Call_AIAgent_init ==
    /\ pc = "idle"
    /\ \E exists \in BOOLEAN :
         Begin([name |-> "AIAgent_init", account_file_exists |-> exists], "init_state")

\* lines 88-109: the account file, account.state() and the minimum balance
AIAgent_init_state ==
    /\ pc = "init_state"
    /\ IF ~op.account_file_exists
       THEN Raise("FileNotFoundError") /\ UNCHANGED <<log, account_state>>
       ELSE /\ log' = Append(log, Effect("query", "ledger", "view_account", AccountId, <<>>))
            /\ \E st \in AccountStates :
                 /\ account_state' = st
                 /\ IF ~st.found
                    THEN Raise("ValueError: Account not found or not accessible")
                    ELSE IF FloatGreater(MinimumBalance, st.balance_near)
                    THEN Raise("ValueError: Insufficient balance. Minimum required: 0.1 NEAR")
                    ELSE pc' = "init_register" /\ UNCHANGED result
    /\ UNCHANGED <<op, now, storage, reg, request, options, best, envelope, published>>
    /\ UNCHANGED <<response_json, error_str, returned>>
    /\ UNCHANGED quotes
    /\ UNCHANGED deposits

\* lines 112-124 and register_intent_public_key: add_public_key on
\* intents.near with the key of the account's signer as its argument,
\* inside a try that lets the swallowed exceptions pass
AIAgent_init_register ==
    /\ pc = "init_register"
    /\ log' = Append(log, [kind |-> "call", target |-> "intents.near",
                           method |-> "add_public_key", account_id |-> "",
                           amount |-> <<>>, public_key |-> PublicKey])
    /\ \E outcome \in KeyOutcomes :
         IF outcome = "ok"
         THEN /\ pc' = "done"
              /\ result' = [status |-> "ok", error |-> ""]
              /\ UNCHANGED error_str
         ELSE /\ error_str' = outcome
              /\ IF KeySwallowed(outcome)
                 THEN pc' = "done" /\ result' = [status |-> "ok", error |-> ""]
                 ELSE Raise(outcome)
    /\ UNCHANGED <<op, now, storage, reg, request, options, best, envelope, published>>
    /\ UNCHANGED <<account_state, response_json, returned>>
    /\ UNCHANGED quotes
    /\ UNCHANGED deposits

Next ==
    \/ register_token_storage_view
    \/ register_token_storage_deposit
    \/ publish_intent
    \/ Call_intent_swap
    \/ intent_swap_register_in
    \/ intent_swap_register_out
    \/ intent_swap_fetch
    \/ intent_swap_select
    \/ intent_swap_sign
    \/ Call_intent_withdraw
    \/ intent_withdraw_sign
    \/ intents_publish_intent
    \/ Call_intents_intent_swap
    \/ intents_intent_swap_fetch
    \/ intents_intent_swap_select
    \/ intents_intent_swap_sign
    \/ Call_intents_intent_withdraw
    \/ intents_intent_withdraw_sign
    \/ Call_swap_near_to_token
    \/ swap_near_to_token_validate
    \/ swap_near_to_token_state
    \/ swap_near_to_token_fetch
    \/ swap_near_to_token_select
    \/ Call_deposit_near
    \/ deposit_near_validate
    \/ deposit_near_state
    \/ intent_deposit_wrap
    \/ intent_deposit_transfer
    \/ Call_AIAgent_init
    \/ AIAgent_init_state
    \/ AIAgent_init_register
    \/ Call_intent_deposit
    \/ intent_deposit_begin
    \/ Call_get_asset_id
    \/ Return_get_asset_id
    \/ Call_intents_get_asset_id
    \/ Return_intents_get_asset_id
    \/ Call_IntentRequest
    \/ IntentRequest_init
    \/ IntentRequest_set_asset_in
    \/ IntentRequest_set_asset_out
    \/ IntentRequest_serialize

Spec == Init /\ [][Next]_vars

(***************************************************************************)
(* The two select_best_option functions on their own, applied to option    *)
(* lists of up to MaxOptions options.                                      *)
(***************************************************************************)
\* amount_out "80", "100", "250", 2^53 and 2^53 + 1 with a quote_hash, a dict
\* without amount_out, and the empty dict
SelectKinds ==
    { [amount_out |-> <<8, 0>>, has_amount |-> TRUE, has_hash |-> TRUE],
      [amount_out |-> <<1, 0, 0>>, has_amount |-> TRUE, has_hash |-> TRUE],
      [amount_out |-> <<2, 5, 0>>, has_amount |-> TRUE, has_hash |-> TRUE],
      [amount_out |-> <<9, 0, 0, 7, 1, 9, 9, 2, 5, 4, 7, 4, 0, 9, 9, 2>>,
       has_amount |-> TRUE, has_hash |-> TRUE],
      [amount_out |-> <<9, 0, 0, 7, 1, 9, 9, 2, 5, 4, 7, 4, 0, 9, 9, 3>>,
       has_amount |-> TRUE, has_hash |-> TRUE],
      [amount_out |-> <<>>, has_amount |-> FALSE, has_hash |-> TRUE],
      [amount_out |-> <<>>, has_amount |-> FALSE, has_hash |-> FALSE] }

InitSelect ==
    /\ pc = "idle"
    /\ op = NoOp
    /\ now = NoTime
    /\ storage = {}
    /\ log = <<>>
    /\ reg = NoReg
    /\ request = NoRequest
    /\ options \in OptionLists(SelectKinds, MaxOptions)
    /\ best = 0
    /\ envelope = NoEnvelope
    /\ published = <<>>
    /\ result = NoResult
    /\ account_state = NoAccountState
    /\ response_json = NoResponse
    /\ error_str = ""
    /\ returned = NoReturn
    /\ quotes = <<>>
    /\ deposits = <<>>

\* best_option = near_intents.select_best_option(options)
Call_select_best_option ==
    /\ pc = "idle"
    /\ op' = [name |-> "select_best_option"]
    /\ best' = select_best_option(options)
    /\ pc' = "done"
    /\ result' = [status |-> "ok", error |-> ""]
    /\ UNCHANGED <<now, storage, log, reg, request, options, envelope, published>>
    /\ UNCHANGED <<account_state, response_json, error_str, returned>>
    /\ UNCHANGED quotes
    /\ UNCHANGED deposits

\* best_option = intents.select_best_option(options)
Call_intents_select_best_option ==
    /\ pc = "idle"
    /\ op' = [name |-> "intents_select_best_option"]
    /\ \E sel \in {intents_select_best_option(options)} :
         /\ best' = sel.best
         /\ pc' = "done"
         /\ result' = IF sel.error = "" THEN [status |-> "ok", error |-> ""]
                      ELSE [status |-> "error", error |-> sel.error]
    /\ UNCHANGED <<now, storage, log, reg, request, options, envelope, published>>
    /\ UNCHANGED <<account_state, response_json, error_str, returned>>
    /\ UNCHANGED quotes
    /\ UNCHANGED deposits

NextSelect ==
    \/ Call_select_best_option
    \/ Call_intents_select_best_option

SpecSelect == InitSelect /\ [][NextSelect]_vars

(***************************************************************************)
(* to_decimals on its own, applied to ints up to MaxUnits and to floats    *)
(* n / 2^k with n up to MaxUnits and k up to MaxHalvings, of either sign,  *)
(* at the decimals of the asset tables and at 0.                           *)
(***************************************************************************)
MaxUnits == 10
MaxHalvings == 2

DecimalAmounts ==
    { PyInt(neg, <<n>>) : neg \in BOOLEAN, n \in 1..MaxUnits }
    \cup { Float(neg, <<n>>, k) : neg \in BOOLEAN, n \in 1..MaxUnits, k \in 0..MaxHalvings }
    \cup { PyInt(FALSE, <<0>>), Float(FALSE, <<0>>, 0) }

DecimalPlaces == {0} \cup {ASSET_MAP[t].decimals : t \in DOMAIN ASSET_MAP}

InitDecimals ==
    /\ pc = "idle"
    /\ op \in { [name |-> "to_decimals", amount |-> a, decimals |-> d] :
                  a \in DecimalAmounts, d \in DecimalPlaces }
    /\ now = NoTime
    /\ storage = {}
    /\ log = <<>>
    /\ reg = NoReg
    /\ request = NoRequest
    /\ options = <<>>
    /\ best = 0
    /\ envelope = NoEnvelope
    /\ published = <<>>
    /\ result = NoResult
    /\ account_state = NoAccountState
    /\ response_json = NoResponse
    /\ error_str = ""
    /\ returned = NoReturn
    /\ quotes = <<>>
    /\ deposits = <<>>

\* to_decimals(amount, decimals) of either module
Call_to_decimals ==
    /\ pc = "idle"
    /\ returned' = to_decimals(op.amount, op.decimals)
    /\ pc' = "done"
    /\ result' = [status |-> "ok", error |-> ""]
    /\ UNCHANGED <<op, now, storage, log, reg, request, options, best, envelope, published>>
    /\ UNCHANGED <<account_state, response_json, error_str>>
    /\ UNCHANGED quotes
    /\ UNCHANGED deposits

NextDecimals == Call_to_decimals

SpecDecimals == InitDecimals /\ [][NextDecimals]_vars

(***************************************************************************)
(* Operations one after another in one process: swaps that have reached    *)
(* the building of their quote and withdraws, of both modules, until       *)
(* MaxQuotes quotes have been signed.                                      *)
(***************************************************************************)
MaxQuotes == 2

InitNonces ==
    /\ pc = "idle"
    /\ op = NoOp
    /\ now = NoTime
    /\ storage = AllStorage
    /\ log = <<>>
    /\ reg = NoReg
    /\ request = NoRequest
    /\ options = <<>>
    /\ best = 0
    /\ envelope = NoEnvelope
    /\ published = <<>>
    /\ result = NoResult
    /\ account_state = NoAccountState
    /\ response_json = NoResponse
    /\ error_str = ""
    /\ returned = NoReturn
    /\ quotes = <<>>
    /\ deposits = <<>>

\* a swap of 1 NEAR for USDC of module name, with the relay's one option
\* selected, is at the statement that builds its quote
SwapSelected(name, at) ==
    /\ op' = [name |-> name, token_in |-> "NEAR", amount_in |-> PyInt(FALSE, <<1>>),
              token_out |-> "USDC"]
    /\ options' = MkOptions(<<[amount_out |-> <<2, 5, 0>>, has_amount |-> TRUE,
                               has_hash |-> TRUE]>>)
    /\ best' = 1
    /\ pc' = at
    /\ log' = <<>>
    /\ reg' = NoReg
    /\ request' = NoRequest
    /\ envelope' = NoEnvelope
    /\ published' = <<>>
    /\ result' = NoResult
    /\ account_state' = NoAccountState
    /\ response_json' = NoResponse
    /\ error_str' = ""
    /\ returned' = NoReturn
    /\ UNCHANGED <<now, storage, quotes, deposits>>

Next_intent_swap ==
    /\ pc = "idle"
    /\ Len(quotes) < MaxQuotes
    /\ SwapSelected("intent_swap", "swap_sign")

Next_intents_intent_swap ==
    /\ pc = "idle"
    /\ Len(quotes) < MaxQuotes
    /\ SwapSelected("intents_intent_swap", "intents_swap_sign")

\* a withdraw of 1 USDC to bob.near on near
Next_intent_withdraw ==
    /\ pc = "idle"
    /\ Len(quotes) < MaxQuotes
    /\ Begin([name |-> "intent_withdraw", destination_address |-> "bob.near",
              token |-> "USDC", amount |-> PyInt(FALSE, <<1>>), network |-> "near"],
             "withdraw_sign")

Next_intents_intent_withdraw ==
    /\ pc = "idle"
    /\ Len(quotes) < MaxQuotes
    /\ Begin([name |-> "intents_intent_withdraw", destination_address |-> "bob.near",
              token |-> "USDC", amount |-> PyInt(FALSE, <<1>>), network |-> "near"],
             "intents_withdraw_sign")

\* the operation has returned or raised, and the caller goes on
Return ==
    /\ pc = "done"
    /\ pc' = "idle"
    /\ op' = NoOp
    /\ now' = NoTime
    /\ Cleared
    /\ UNCHANGED <<storage, quotes, deposits>>

NextNonces ==
    \/ Next_intent_swap
    \/ intent_swap_sign
    \/ Next_intent_withdraw
    \/ intent_withdraw_sign
    \/ publish_intent
    \/ Next_intents_intent_swap
    \/ intents_intent_swap_sign
    \/ Next_intents_intent_withdraw
    \/ intents_intent_withdraw_sign
    \/ intents_publish_intent
    \/ Return

SpecNonces == InitNonces /\ [][NextNonces]_vars

(***************************************************************************)
(* Deposits of the agent and swaps one after another in one process,       *)
(* against one ledger that starts with no registration; a new operation    *)
(* starts while the ledger has been sent fewer than MaxDeposits            *)
(* storage_deposit calls.                                                  *)
(***************************************************************************)
MaxDeposits == 4

InitLedger ==
    /\ pc = "idle"
    /\ op = NoOp
    /\ now = NoTime
    /\ storage = {}
    /\ log = <<>>
    /\ reg = NoReg
    /\ request = NoRequest
    /\ options = <<>>
    /\ best = 0
    /\ envelope = NoEnvelope
    /\ published = <<>>
    /\ result = NoResult
    /\ account_state = NoAccountState
    /\ response_json = NoResponse
    /\ error_str = ""
    /\ returned = NoReturn
    /\ quotes = <<>>
    /\ deposits = <<>>

\* the agent deposits 1 NEAR
Next_deposit_near ==
    /\ pc = "idle"
    /\ Len(deposits) < MaxDeposits
    /\ Begin([name |-> "deposit_near", token |-> "NEAR", amount |-> PyInt(FALSE, <<1>>)],
             "deposit_validate")

\* a swap of 1 of one token of the table for another, or for itself
Next_swap_registering ==
    /\ pc = "idle"
    /\ Len(deposits) < MaxDeposits
    /\ \E token_in \in DOMAIN ASSET_MAP, token_out \in DOMAIN ASSET_MAP :
         Begin([name |-> "intent_swap", token_in |-> token_in,
                amount_in |-> PyInt(FALSE, <<1>>), token_out |-> token_out], "swap_reg_in")

\* intent_swap lines 307-333: once both tokens are registered the swap
\* talks to the relay only, and returns its reply or raises
intent_swap_after_registration ==
    /\ pc = "swap_fetch"
    /\ \E e \in {"", "ConnectionError", "KeyError"} :
         IF e = "" THEN pc' = "done" /\ result' = [status |-> "ok", error |-> ""]
         ELSE Raise(e)
    /\ UNCHANGED <<op, now, storage, log, reg, request, options, best,
                   envelope, published>>
    /\ UNCHANGED <<account_state, response_json, error_str, returned>>
    /\ UNCHANGED quotes
    /\ UNCHANGED deposits

NextLedger ==
    \/ Next_deposit_near
    \/ deposit_near_validate
    \/ deposit_near_state
    \/ intent_deposit_wrap
    \/ intent_deposit_transfer
    \/ Next_swap_registering
    \/ intent_swap_register_in
    \/ intent_swap_register_out
    \/ intent_swap_after_registration
    \/ register_token_storage_view
    \/ register_token_storage_deposit
    \/ Return

SpecLedger == InitLedger /\ [][NextLedger]_vars

(***************************************************************************)
(* Two threads that call register_token_storage at the same time for the   *)
(* same token and the same account id.  pc, reg, returned and result hold  *)
(* one value for each thread; the ledger and the log are shared.           *)
(***************************************************************************)
Threads == {"A", "B"}

InitRace ==
    /\ pc = [t \in Threads |-> "rts_view"]
    /\ \E token \in DOMAIN ASSET_MAP, account_id \in {AccountId, "intents.near"} :
         /\ op = [name |-> "register_token_storage", token |-> token]
         /\ reg = [t \in Threads |->
                     [token |-> token, account_id |-> account_id, ret |-> "done",
                      catch |-> FALSE]]
    /\ now = NoTime
    /\ storage \in {{}, AllStorage}
    /\ log = <<>>
    /\ request = NoRequest
    /\ options = <<>>
    /\ best = 0
    /\ envelope = NoEnvelope
    /\ published = <<>>
    /\ result = [t \in Threads |-> NoResult]
    /\ account_state = NoAccountState
    /\ response_json = NoResponse
    /\ error_str = ""
    /\ returned = [t \in Threads |-> NoReturn]
    /\ quotes = <<>>
    /\ deposits = <<>>

\* the view of thread t with the test of its result inverted
register_token_storage_view_inverted(t) ==
    /\ pc[t] = "rts_view"
    /\ \E token_id \in {ASSET_MAP[reg[t].token].token_id} :
         /\ log' = Append(log, Effect("view", token_id, "storage_balance_of",
                                      reg[t].account_id, <<>>))
         /\ IF <<token_id, reg[t].account_id>> \in storage
            THEN /\ returned' = [returned EXCEPT ![t] = Some("balance")]
                 /\ pc' = [pc EXCEPT ![t] = "rts_deposit"]
                 /\ UNCHANGED result
            ELSE /\ returned' = [returned EXCEPT ![t] = None]
                 /\ pc' = [pc EXCEPT ![t] = reg[t].ret]
                 /\ result' = [result EXCEPT ![t] = [status |-> "ok", error |-> ""]]
    /\ UNCHANGED <<op, now, storage, reg, request, options, best, envelope, published>>
    /\ UNCHANGED <<account_state, response_json, error_str, quotes, deposits>>

\* lines 107-109 in thread t: balance is what storage_balance_of returns
\* at this moment, None for an account that is not registered
register_token_storage_view_by(t) ==
    /\ pc[t] = "rts_view"
    /\ \E token_id \in {ASSET_MAP[reg[t].token].token_id} :
         /\ log' = Append(log, Effect("view", token_id, "storage_balance_of",
                                      reg[t].account_id, <<>>))
         /\ IF <<token_id, reg[t].account_id>> \in storage
            THEN /\ returned' = [returned EXCEPT ![t] = Some("balance")]
                 /\ pc' = [pc EXCEPT ![t] = reg[t].ret]
                 /\ result' = [result EXCEPT ![t] = [status |-> "ok", error |-> ""]]
            ELSE /\ returned' = [returned EXCEPT ![t] = None]
                 /\ pc' = [pc EXCEPT ![t] = "rts_deposit"]
                 /\ UNCHANGED result
    /\ UNCHANGED <<op, now, storage, reg, request, options, best, envelope, published>>
    /\ UNCHANGED <<account_state, response_json, error_str, quotes, deposits>>

\* lines 110-113 in thread t: storage_deposit, then balance is returned
register_token_storage_deposit_by(t) ==
    /\ pc[t] = "rts_deposit"
    /\ \E token_id \in {ASSET_MAP[reg[t].token].token_id}, outcome \in LedgerOutcomes :
         /\ log' = Append(log, Effect("call", token_id, "storage_deposit",
                                      reg[t].account_id, <<>>))
         /\ storage' = IF outcome = "ok" THEN storage \cup {<<token_id, reg[t].account_id>>}
                       ELSE storage
         /\ deposits' = Append(deposits, StorageDeposit(token_id, reg[t].account_id, outcome))
         /\ pc' = [pc EXCEPT ![t] = "done"]
         /\ result' = [result EXCEPT ![t] =
                         IF outcome = "ok" THEN [status |-> "ok", error |-> ""]
                         ELSE [status |-> "error", error |-> outcome]]
    /\ UNCHANGED <<op, now, reg, request, options, best, envelope, published>>
    /\ UNCHANGED <<account_state, response_json, error_str, returned, quotes>>

NextRace ==
    \/ \E t \in Threads : register_token_storage_view_by(t)
    \/ \E t \in Threads : register_token_storage_deposit_by(t)

SpecRace == InitRace /\ [][NextRace]_vars

(***************************************************************************)
(* Properties of option selection.                                         *)
(***************************************************************************)
\* a select_best_option call has returned an option of a non-empty list in
\* which every option has an amount_out
Returned(name) ==
    /\ pc = "done"
    /\ op.name = name
    /\ result.status = "ok"
    /\ Len(options) > 0
    /\ \A i \in 1..Len(options) : options[i].has_amount

\* option i has numerically the largest amount_out of the list
IsMaximum(i) ==
    /\ i \in 1..Len(options)
    /\ \A j \in 1..Len(options) :
         ~NatLess(DigitsToNat(options[i].amount_out), DigitsToNat(options[j].amount_out))

\* C1: near_intents.select_best_option, given a non-empty list of options,
\* returns an option whose amount_out is numerically the maximum of the list.
C1_SelectsMaximum == Returned("select_best_option") => IsMaximum(best)

\* C2: intents.select_best_option, given a non-empty list of options, returns
\* an option whose amount_out is the maximum of the list.
C2_IntentsSelectsMaximum == Returned("intents_select_best_option") => IsMaximum(best)

\* C3: the option either select_best_option returns is never preceded in the
\* list by another option with the same amount_out.
C3_StableTieBreak ==
    (/\ pc = "done"
     /\ op.name \in {"select_best_option", "intents_select_best_option"}
     /\ result.status = "ok"
     /\ best > 0
     /\ options[best].has_amount)
    => \A j \in 1..(best - 1) :
         ~(options[j].has_amount /\ options[j].amount_out = options[best].amount_out)

\* C3: near_intents.select_best_option has returned the first of two options
\* of amount 250 that no later option exceeds
C3_Witness ==
    /\ pc = "done"
    /\ op.name = "select_best_option"
    /\ Len(options) = 3
    /\ options[1].amount_out = <<2, 5, 0>> /\ options[1].has_amount
    /\ options[2].amount_out = <<2, 5, 0>> /\ options[2].has_amount
    /\ options[3].amount_out = <<1, 0, 0>>
    /\ best = 1

(***************************************************************************)
(* Properties of the swap, withdraw and agent operations.                  *)
(***************************************************************************)
SwapOps == {"intent_swap", "intents_intent_swap", "swap_near_to_token"}

WithdrawOps == {"intent_withdraw", "intents_intent_withdraw"}

IsIntentsOp == op.name \in {"intents_intent_swap", "intents_intent_withdraw"}

\* the diff of the token_diff intent of a swap's envelope
DiffOf(e) == e.signed_data.payload.intents[1].diff

\* the asset ids of the swap under way, in its module
InAssetId == IF IsIntentsOp THEN intents_get_asset_id(op.token_in) ELSE get_asset_id(op.token_in)

OutAssetId == IF IsIntentsOp THEN intents_get_asset_id(op.token_out) ELSE get_asset_id(op.token_out)

\* a quote request of the operation under way has been sent
QuoteRequested == \E i \in 1..Len(log) : log[i].method = "quote"

\* C4: when the option list of the relay's quote reply is empty,
\* select_best_option returns None, the swap ends with an error, and nothing
\* is passed to publish_intent
C4_EmptyReplyFails ==
    (op.name \in SwapOps /\ QuoteRequested /\ options = <<>>)
    => /\ select_best_option(options) = 0
       /\ intents_select_best_option(options).best = 0
       /\ published = <<>>
       /\ pc \notin {"publish", "intents_publish"}
       /\ (pc = "done" => result.status = "error")

\* C4: near_intents.intent_swap has ended on an empty reply
C4_Witness ==
    /\ pc = "done"
    /\ op.name = "intent_swap"
    /\ options = <<>>
    /\ Len(log) > 0 /\ log[Len(log)].method = "quote"
    /\ result.error = "ValueError: No valid swap options available from solver bus"
    /\ published = <<>>

\* a string of digits that stands for a number above zero
PositiveDigits(s) == Len(s) > 0 /\ s[1] >= 0 /\ ~IsZero(DigitsToNat(s))

\* C5: in every envelope a swap between two assets publishes, the diff entry
\* of the output asset is positive and is the amount_out of the selected
\* option, unchanged
C5_OutputEntryUnchanged ==
    (op.name \in SwapOps /\ op.token_in # op.token_out) =>
      \A i \in 1..Len(published) :
        /\ OutAssetId \in DOMAIN DiffOf(published[i])
        /\ DiffOf(published[i])[OutAssetId] = options[best].amount_out
        /\ PositiveDigits(DiffOf(published[i])[OutAssetId])

\* amount x 10^decimals truncated toward zero, computed exactly, as a string
ExactBaseUnits(amount, decimals) ==
    Str(PyInt(amount.neg, FloorDivPow2(Mul(amount.n, Pow10(decimals)), amount.k)))

\* C6: in every envelope a swap between two assets publishes, the diff entry
\* of the input asset is "-" followed by amount_in scaled exactly to base
\* units; for 1 NEAR it is "-1000000000000000000000000"
C6_InputEntryScaled ==
    (op.name \in SwapOps /\ op.token_in # op.token_out) =>
      \A i \in 1..Len(published) :
        /\ InAssetId \in DOMAIN DiffOf(published[i])
        /\ DiffOf(published[i])[InAssetId] =
             MinusSign \o ExactBaseUnits(op.amount_in,
                            AssetMapOf(op.name)[op.token_in].decimals)

\* the diff entry the swap under way builds from an option's amount_out
QuotedOut(amount_out) ==
    IF IsIntentsOp THEN amount_out
    ELSE to_decimals(ParseFloat(amount_out), ASSET_MAP[op.token_out].decimals)

\* C7: every envelope a swap publishes names exactly one quote hash, that of
\* the selected option whose amount_out built the quote, and of no other
C7_HashOfConsumedOption ==
    op.name \in SwapOps =>
      \A i \in 1..Len(published) :
        /\ best \in 1..Len(options)
        /\ options[best].has_hash /\ options[best].has_amount
        /\ published[i].quote_hashes = <<options[best].quote_hash>>
        /\ DiffOf(published[i])[OutAssetId] = QuotedOut(options[best].amount_out)
        /\ \A j \in 1..Len(options) :
             (options[j].has_hash /\ options[j].quote_hash = published[i].quote_hashes[1])
             => j = best

\* C7: a swap has published the hash of the second of two options
C7_Witness ==
    /\ pc = "done"
    /\ op.name = "intent_swap"
    /\ Len(published) = 1
    /\ Len(options) = 2
    /\ best = 2
    /\ published[1].quote_hashes = <<2>>

\* C8: the intent near_intents.intent_withdraw publishes: for a network other
\* than 'near', token and receiver_id are the bridge alias and the memo is
\* "WITHDRAW_TO:<destination_address>"; for 'near', no memo, the token id
\* and the destination address
C8_WithdrawTarget ==
    op.name = "intent_withdraw" =>
      \A i \in 1..Len(published) :
        \E w \in {published[i].signed_data.payload.intents[1]} :
          IF op.network # "near"
          THEN /\ w.token = ASSET_MAP[op.token].omft
               /\ w.receiver_id = ASSET_MAP[op.token].omft
               /\ "memo" \in DOMAIN w
               /\ w.memo = Concat("WITHDRAW_TO:", op.destination_address)
          ELSE /\ "memo" \notin DOMAIN w
               /\ w.token = ASSET_MAP[op.token].token_id
               /\ w.receiver_id = op.destination_address

\* C8: a withdraw of USDC to the eth network has been published
C8_Witness ==
    /\ op.name = "intent_withdraw"
    /\ op.network = "eth"
    /\ op.destination_address = "0xdead"
    /\ Len(published) = 1
    /\ published[1].signed_data.payload.intents[1].memo = Concat("WITHDRAW_TO:", "0xdead")

\* the withdraw under way names an asset of its module's table and, in
\* near_intents, a network the asset can be withdrawn to
WithdrawOfKnownAsset ==
    /\ op.name \in WithdrawOps
    /\ op.token \in DOMAIN AssetMapOf(op.name)
    /\ (op.name = "intent_withdraw" /\ op.network # "near")
       => "omft" \in DOMAIN ASSET_MAP[op.token]

\* C9: a withdraw that has ended sent no quote request and passed exactly
\* one envelope to publish_intent, with empty quote_hashes
C9_WithdrawPublishesOnce ==
    (WithdrawOfKnownAsset /\ pc = "done")
    => /\ ~QuoteRequested
       /\ Len(published) = 1
       /\ published[1].quote_hashes = <<>>

\* amount <= 0, read from the number itself
AtMostZero(x) == x.neg \/ IsZero(x.n)

\* C10: deposit_near with amount <= 0 and swap_near_to_token with
\* amount_in <= 0 or an unknown target token end with ValueError, and no
\* ledger query, ledger call or relay request is made
C10_ValidationFirst ==
    (\/ (op.name = "deposit_near" /\ AtMostZero(op.amount))
     \/ (op.name = "swap_near_to_token"
         /\ (AtMostZero(op.amount_in) \/ op.token_out \notin DOMAIN ASSET_MAP)))
    => /\ log = <<>>
       /\ published = <<>>
       /\ pc \in {"deposit_validate", "agent_swap_validate", "done"}
       /\ (pc = "done" =>
             result.error \in {"ValueError: Deposit amount must be greater than 0",
                               "ValueError: Swap amount must be greater than 0",
                               "ValueError: Unsupported target token"})

\* C10: swap_near_to_token has rejected a positive amount for an unknown token
C10_Witness ==
    /\ pc = "done"
    /\ op.name = "swap_near_to_token"
    /\ op.token_out = "BTC"
    /\ ~AtMostZero(op.amount_in)
    /\ result.error = "ValueError: Unsupported target token"
    /\ log = <<>>

(***************************************************************************)
(* Properties of validation, balance checks and failures before publish.   *)
(***************************************************************************)
\* a ledger call, which changes state on the ledger, has been submitted
LedgerCallSubmitted == \E i \in 1..Len(log) : log[i].kind = "call"

\* a request has been sent to the relay
RelayRequested == \E i \in 1..Len(log) : log[i].kind = "rpc"

\* C11: near_intents.intent_swap called with amount_in <= 0 or an unknown
\* token_out ends with an error, and no storage_balance_of query, no
\* storage_deposit call and no relay request has been issued
C11_SwapValidatesFirst ==
    (/\ op.name = "intent_swap"
     /\ (AtMostZero(op.amount_in) \/ op.token_out \notin DOMAIN ASSET_MAP))
    => /\ log = <<>>
       /\ (pc = "done" => result.status = "error")

\* amount > balance, as exact rationals, for a positive amount
ExceedsBalance(amount, balance) ==
    /\ ~amount.neg
    /\ NatLess(Norm(TimesPow2(balance.n, amount.k)), Norm(TimesPow2(amount.n, balance.k)))

\* the amount of the agent operation under way
AgentAmount == IF op.name = "deposit_near" THEN op.amount ELSE op.amount_in

C15_NoTraceBeforePublish ==
    (/\ op.name \in SwapOps
     /\ QuoteRequested
     /\ pc = "done"
     /\ result.status = "error"
     /\ published = <<>>)
    => ~LedgerCallSubmitted

\* C16: when the relay answers the quote request with a structured error,
\* the swap fails with an error that carries the relay's message
C16_RelayErrorPropagates ==
    (/\ op.name \in SwapOps
     /\ response_json.kind = "error"
     /\ pc = "done")
    => /\ result.status = "error"
       /\ result.error = response_json.message

(***************************************************************************)
(* Properties of deposits, deadlines and signatures.                       *)
(***************************************************************************)
\* the positions of the calls of a method in the log
CallsOf(method) == {i \in 1..Len(log) : log[i].kind = "call" /\ log[i].method = method}

\* C13: a deposit that has succeeded queried the registration of intents.near
\* on the token contract first, submitted storage_deposit only directly after
\* that query, and then exactly one ft_transfer_call to intents.near, as its
\* last effect, for the deposit amount in base units
C13_DepositSequence ==
    (op.name = "deposit_near" /\ pc = "done" /\ result.status = "ok")
    => /\ Len(log) >= 3
       /\ log[1].kind = "query"
       /\ log[2].kind = "view" /\ log[2].method = "storage_balance_of"
       /\ log[2].target = ASSET_MAP["NEAR"].token_id
       /\ log[2].account_id = "intents.near"
       /\ CallsOf("storage_deposit") \subseteq {3}
       /\ CallsOf("ft_transfer_call") = {Len(log)}
       /\ log[Len(log)].account_id = "intents.near"
       /\ log[Len(log)].amount = ExactBaseUnits(op.amount, ASSET_MAP["NEAR"].decimals)

\* the time a deadline names, in milliseconds since the epoch
DeadlineMs(deadline) ==
    IF op.name \in {"intent_swap", "swap_near_to_token"} THEN deadline
    ELSE IF deadline = "2025-12-31T11:59:59.000Z"
    THEN <<1, 7, 6, 7, 1, 8, 2, 3, 9, 9, 0, 0, 0>>
    ELSE <<0>>

\* C17: the deadline of every quote that has been built is strictly later
\* than the time at which it was built
C17_DeadlineInFuture ==
    envelope.built =>
      NatLess(DigitsToNat(now), DigitsToNat(DeadlineMs(envelope.signed_data.payload.deadline)))

\* C18: in every envelope published, the signature is the account's over
\* exactly the payload carried beside it, the standard is "raw_ed25519", and
\* the envelope is the one that was signed
C18_SignedIsTransmitted ==
    \A i \in 1..Len(published) :
      /\ published[i].signed_data.standard = "raw_ed25519"
      /\ published[i].signed_data.signature =
           Concat("ed25519:", [signed |-> published[i].signed_data.payload, by |-> AccountId])
      /\ published[i] = envelope

\* C18: a withdraw quote has been signed and published
C18_Witness ==
    /\ op.name = "intent_withdraw"
    /\ Len(published) = 1
    /\ published[1].signed_data.payload.signer_id = AccountId
    /\ published[1].signed_data.signature[2].signed = published[1].signed_data.payload

\* the messages with which the ledger says that the key is registered
AlreadyRegisteredErrors ==
    {"Smart contract panicked: public key already exists", "Already registered"}

\* C14: when add_public_key is rejected because the key is already
\* registered, the construction of the agent succeeds; any other failure of
\* add_public_key is raised to the caller
C14_KeyRegistrationIdempotent ==
    (op.name = "AIAgent_init" /\ pc = "done" /\ error_str # "")
    => IF error_str \in AlreadyRegisteredErrors
       THEN result.status = "ok"
       ELSE result = [status |-> "error", error |-> error_str]

\* C14: a construction has succeeded although add_public_key was rejected
C14_Witness ==
    /\ op.name = "AIAgent_init"
    /\ pc = "done"
    /\ error_str = "Already registered"
    /\ result.status = "ok"
    /\ log[Len(log)].method = "add_public_key"

(***************************************************************************)
(* Properties of to_decimals.                                              *)
(***************************************************************************)
\* C19: to_decimals returns the integer string of amount x 10^decimals
\* truncated toward zero, computed exactly; 0.5 at 24 decimals gives
\* "500000000000000000000000"
C19_ExactScaling ==
    (op.name = "to_decimals" /\ pc = "done")
    => returned = ExactBaseUnits(op.amount, op.decimals)

(***************************************************************************)
(* Properties of asset resolution.                                         *)
(***************************************************************************)
\* the operation under way names a symbol that is not in the asset table of
\* its module
UnknownSymbol ==
    \/ op.name = "get_asset_id" /\ op.token \notin DOMAIN ASSET_MAP
    \/ op.name = "intents_get_asset_id" /\ op.token \notin DOMAIN intents_ASSET_MAP
    \/ /\ op.name = "IntentRequest"
       /\ \/ op.with_in /\ op.token_in \notin DOMAIN ASSET_MAP
          \/ op.with_out /\ op.token_out \notin DOMAIN ASSET_MAP
    \/ op.name = "intent_deposit" /\ op.token \notin DOMAIN ASSET_MAP
    \/ op.name \in WithdrawOps /\ op.token \notin DOMAIN AssetMapOf(op.name)

\* C20: get_asset_id, IntentRequest.set_asset_in and set_asset_out,
\* intent_deposit and intent_withdraw, given a symbol that is not in the
\* asset table, end with KeyError; no asset id is returned, the request keeps
\* no entry for the symbol and is never serialized, nothing is signed, and no
\* ledger or relay call is made
C20_FailsClosed ==
    UnknownSymbol
    => /\ log = <<>>
       /\ published = <<>>
       /\ envelope = NoEnvelope
       /\ request = NoRequest
       /\ (pc = "done" => result = [status |-> "error", error |-> "KeyError"])
       /\ (op.name \in {"get_asset_id", "intents_get_asset_id"} => returned = NoReturn)
       /\ (op.name = "IntentRequest" /\ pc # "request_new")
          => /\ "asset_in" \in DOMAIN returned
             /\ (op.with_in /\ op.token_in \notin DOMAIN ASSET_MAP)
                => IsNone(returned.asset_in)
             /\ (op.with_out /\ op.token_out \notin DOMAIN ASSET_MAP)
                => IsNone(returned.asset_out)

\* C20: set_asset_in has raised KeyError for "BTC" and the request holds no
\* input asset
C20_Witness ==
    /\ op.name = "IntentRequest"
    /\ op.with_in
    /\ op.token_in = "BTC"
    /\ pc = "done"
    /\ result.error = "KeyError"
    /\ returned = IntentRequest_new

(***************************************************************************)
(* Properties of the quotes of one process.                                *)
(***************************************************************************)
\* C21: no two quotes signed by the process carry the same nonce
C21_NoncesDistinct ==
    \A i, j \in 1..Len(quotes) :
      i # j => quotes[i].payload.nonce # quotes[j].payload.nonce

(***************************************************************************)
(* Properties of the order and the number of the effects.                  *)
(***************************************************************************)
\* the positions of the storage_balance_of views in the log
ViewsAt == {i \in 1..Len(log) : log[i].kind = "view"}

\* entry i of the log is the storage_balance_of view of the caller's account
\* on the contract of token
IsViewOf(i, token) ==
    /\ log[i].method = "storage_balance_of"
    /\ log[i].target = ASSET_MAP[token].token_id
    /\ log[i].account_id = AccountId

\* C22: a near_intents.intent_swap that has succeeded looked up the storage
\* registration of token_in and then of token_out, each storage_deposit
\* directly after the view of its contract, then sent one quote request and
\* received a non-empty reply, then one publish_intent, its last effect; and
\* no swap publishes without a non-empty reply
C22_SwapOrder ==
    /\ (op.name = "intent_swap" /\ pc = "done" /\ result.status = "ok")
       => /\ Len(log) >= 4
          /\ log[Len(log)].kind = "rpc" /\ log[Len(log)].method = "publish_intent"
          /\ log[Len(log) - 1].kind = "rpc" /\ log[Len(log) - 1].method = "quote"
          /\ \A i \in 1..(Len(log) - 2) :
               /\ log[i].kind \in {"view", "call"}
               /\ log[i].kind = "call"
                  => /\ log[i].method = "storage_deposit"
                     /\ i > 1
                     /\ log[i - 1].kind = "view"
                     /\ log[i - 1].target = log[i].target
          /\ Cardinality(ViewsAt) = 2
          /\ \E a, b \in ViewsAt :
               a = 1 /\ a < b /\ IsViewOf(a, op.token_in) /\ IsViewOf(b, op.token_out)
          /\ Len(options) > 0
          /\ Len(published) = 1
    /\ (op.name = "intent_swap" /\ published # <<>>)
       => /\ Len(options) > 0
          /\ log[Len(log)].method = "publish_intent"
          /\ log[Len(log) - 1].method = "quote"

\* C22: a swap between two unregistered tokens has succeeded
C22_Witness ==
    /\ op.name = "intent_swap"
    /\ op.token_in # op.token_out
    /\ pc = "done"
    /\ result.status = "ok"
    /\ Len(log) = 6
    /\ log[6].method = "publish_intent"

\* the positions of the relay requests of a method in the log
RequestsOf(method) == {i \in 1..Len(log) : log[i].kind = "rpc" /\ log[i].method = method}

\* intent_swap and intent_withdraw of both modules, called directly
CoreOps == {"intent_swap", "intent_withdraw", "intents_intent_swap", "intents_intent_withdraw"}

\* C23: an intent_swap or intent_withdraw call sends at most one quote
\* request and at most one publish_intent request; when the relay cannot be
\* reached the call ends with the transport error, and the failed request is
\* its last effect
C23_NoRetry ==
    op.name \in CoreOps
    => /\ Cardinality(RequestsOf("quote")) <= 1
       /\ Cardinality(RequestsOf("publish_intent")) <= 1
       /\ Len(published) <= 1
       /\ (RequestsOf("quote") # {} /\ response_json.kind = "none")
          => /\ pc = "done"
             /\ result = [status |-> "error", error |-> "ConnectionError"]
             /\ log[Len(log)].method = "quote"
       /\ (pc = "done" /\ result.error = "ConnectionError")
          => log[Len(log)].kind = "rpc"

\* C23: a swap has ended with the transport error of its publish_intent
C23_Witness ==
    /\ op.name = "intent_swap"
    /\ pc = "done"
    /\ result.error = "ConnectionError"
    /\ log[Len(log)].method = "publish_intent"
    /\ Cardinality(RequestsOf("publish_intent")) = 1

(***************************************************************************)
(* Properties of concurrent registrations.                                 *)
(***************************************************************************)
\* the threads that have submitted storage_deposit: their view returned None
\* and they have passed the call
Depositors == {t \in Threads : pc[t] = "done" /\ IsNone(returned[t])}

\* C24: a thread submits storage_deposit exactly when its own view found no
\* registration, whatever the other thread has done since that view: every
\* thread whose view returned None submits one storage_deposit
C24_ReadThenWrite ==
    /\ \A t \in Threads : pc[t] = "rts_deposit" => IsNone(returned[t])
    /\ Cardinality(CallsOf("storage_deposit")) = Cardinality(Depositors)

\* C24: both threads have read an absent registration before either
\* registered, and both have submitted storage_deposit
C24_Witness ==
    /\ Depositors = Threads
    /\ Len(log) = 4
    /\ log[1].kind = "view" /\ log[2].kind = "view"
    /\ log[3].method = "storage_deposit" /\ log[4].method = "storage_deposit"
    /\ log[3].target = log[4].target /\ log[3].account_id = log[4].account_id

(***************************************************************************)
(* Properties of malformed replies, keys and contracts.                    *)
(***************************************************************************)
\* the quote reply holds an option without amount_out or without quote_hash
Malformed ==
    \E i \in 1..Len(options) : ~options[i].has_amount \/ ~options[i].has_hash

\* C25: a swap whose quote reply holds an option without amount_out or
\* without quote_hash ends with an error and publishes no envelope
C25_MalformedReplyFails ==
    (op.name = "intent_swap" /\ Malformed)
    => /\ published = <<>>
       /\ envelope = NoEnvelope
       /\ (pc = "done" => result.status = "error")

\* C26: the public_key of every Commitment signed for the account and the
\* public_key of every add_public_key call made for it are the same string,
\* "ed25519:" followed by the base58 text of the signer's key
C26_SamePublicKey ==
    /\ \A i \in 1..Len(quotes) : quotes[i].public_key = PublicKey
    /\ \A i \in 1..Len(log) :
         log[i].method = "add_public_key" => log[i].public_key = PublicKey

\* C26: a swap has signed a Commitment
C26_Witness ==
    /\ op.name = "intent_swap"
    /\ Len(quotes) = 1
    /\ quotes[1].public_key = Concat("ed25519:", "base58(public_key)")
    /\ envelope.built

\* C27: intent_withdraw of the top-level intents.py, for a known token
\* and a network other than 'near', publishes one withdraw intent that
\* carries the memo "WITHDRAW_TO:<destination_address>"
C27_IntentsWithdrawMemo ==
    (/\ op.name = "intents_intent_withdraw"
     /\ op.network # "near"
     /\ op.token \in DOMAIN intents_ASSET_MAP
     /\ pc = "done")
    => /\ Len(published) = 1
       /\ "memo" \in DOMAIN published[1].signed_data.payload.intents[1]
       /\ published[1].signed_data.payload.intents[1].memo
            = Concat("WITHDRAW_TO:", op.destination_address)

\* the keys every message of serialize holds
RequiredKeys ==
    {"defuse_asset_identifier_in", "defuse_asset_identifier_out", "exact_amount_in",
     "min_deadline_ms"}

\* C28: a chain that ends in serialize without set_asset_in or without
\* set_asset_out raises ValueError; a message that serialize returns holds
\* the four required keys, and holds exact_amount_out exactly when an output
\* amount was passed to set_asset_out
C28_SerializeContract ==
    (op.name = "IntentRequest" /\ pc = "done" /\ result.error # "KeyError")
    => IF ~op.with_in \/ ~op.with_out
       THEN result = [status |-> "error",
                      error |-> "ValueError: Both input and output assets must be specified"]
       ELSE /\ result.status = "ok"
            /\ RequiredKeys \subseteq DOMAIN returned
            /\ ("exact_amount_out" \in DOMAIN returned) <=> ~IsNone(op.amount_out)

\* C29: swap_near_to_token sends one quote request to the relay for a swap
C29_OneQuotePerSwap ==
    op.name = "swap_near_to_token" => Cardinality(RequestsOf("quote")) <= 1

\* C30: every quote signed names the verifying contract intents.near, the
\* contract deposits are transferred to and the key is registered with
C30_OneVerifyingContract ==
    \A i \in 1..Len(quotes) : quotes[i].payload.verifying_contract = "intents.near"

(***************************************************************************)
(* Properties of the storage registrations of one process.                 *)
(***************************************************************************)
\* the registration that storage_deposit call i of the ledger asks for
PairOf(i) == <<deposits[i].token_id, deposits[i].account_id>>

\* C31: in sequential use, once the ledger has recorded a storage_deposit
\* for a token contract and an account id, no later call of
\* register_token_storage sends storage_deposit for that pair again, so a
\* ledger that records every storage_deposit is sent at most one per pair
C31_DepositOncePerPair ==
    \A i, j \in 1..Len(deposits) :
      (i < j /\ deposits[i].outcome = "ok") => PairOf(i) # PairOf(j)

\* a swap has ended normally after it viewed, and did not deposit for, a
\* pair that an earlier operation had registered
C31_Witness ==
    /\ pc = "done"
    /\ op.name = "intent_swap"
    /\ result.status = "ok"
    /\ \A k \in 1..Len(log) : log[k].method # "storage_deposit"
    /\ \E i \in 1..Len(deposits), k \in 1..Len(log) :
         /\ deposits[i].outcome = "ok"
         /\ log[k].method = "storage_balance_of"
         /\ <<log[k].target, log[k].account_id>> = PairOf(i)

====
